---- MODULE Spec2Model ----
(***************************************************************************)
(* A model of the dispatch core of jonson: the per-call Context (slot      *)
(* list, lazy resolution with cycle detection, ordered finalization), the  *)
(* Factory's providers, the Method Handler's dispatch and internal calls,  *)
(* impersonation, and the Public/Private identity tokens.                  *)
(*                                                                         *)
(*   ctxs    the Contexts created so far, by index                         *)
(*   stack   Go's call stack: a sequence of frames, the last one running;  *)
(*           a panic unwinds the frames up to the nearest recover          *)
(*   nvals   the number of objects created so far; for the Public, the     *)
(*           number of AccountUuid calls made                              *)
(*   budget  the number of objects user code may create; for the Public,   *)
(*           the number of AccountUuid calls the goroutines may make       *)
(*   request the source and the id of the envelope being dispatched, and   *)
(*           the verb and the path of a request to the per-method endpoint *)
(*   reply   what the last request, or test boundary, answered             *)
(*   logged  the entries the last step wrote to the log at error severity: *)
(*           the Context whose logger was asked for, and the error logged  *)
(*   ended   the handler call of callMethod that came back in the last     *)
(*           step: the Context of the call, and whether the handler        *)
(*           returned no error, returned an error or panicked              *)
(*   rxerr   the variable err of RegisterRegexp, which the handler it      *)
(*           registers captures and assigns                                *)
(*   public  the fields of one Public, and the resolutions it has made     *)
(*   client  the AuthClient: the accounts logged in, and the number of     *)
(*           is-authenticated calls it has answered                        *)
(*   callers the goroutines calling AccountUuid on the Public              *)
(*   subject the object that a specification of one object is about, by    *)
(*           its fields: the regexp router, the Factory, the endpoints of  *)
(*           the Method Handler, a stored RpcMeta, a validated object, a   *)
(*           websocket session                                             *)
(*   outcome what the last call on that object returned or panicked with   *)
(***************************************************************************)
EXTENDS Integers, Sequences, FiniteSets, TLC

VARIABLES ctxs, stack, nvals, budget, request, reply, logged, ended, rxerr, public,
          client, callers, subject, outcome

\* The variables of the specifications of one object.
unit == <<subject, outcome>>

\* The variables of the dispatch.
core ==
  <<ctxs, stack, nvals, budget, request, reply, logged, ended, rxerr, public, client, callers>>

vars == <<core, unit>>

\* What a call returned (val), or that it panicked.
Result(op, panic, val) == [op |-> op, panic |-> panic, val |-> val]
NoResult == Result("", FALSE, <<>>)

\* No object is looked at on its own.
InitUnit == subject = <<>> /\ outcome = NoResult

(***************************************************************************)
(* Bounds of the model.                                                    *)
(***************************************************************************)
MaxInserts == 4
MaxCallInserts == 2
MaxCtx == 3
MaxCallers == 2
MaxCalls == 3

(***************************************************************************)
(* Type identities (reflect.Type) and the capability markers their values  *)
(* bear.  A, B and C stand for provided user types.                        *)
(***************************************************************************)
TypeContext == "Context"
TypeHttpRequest == "HttpRequest"
TypeHttpResponseWriter == "HttpResponseWriter"
TypeRpcMeta == "RpcMeta"
TypePrivate == "Private"
TypePublic == "Public"
TypeSecret == "Secret"
TypeWSClient == "WSClient"
TypeHttpRegexpMatchedParts == "HttpRegexpMatchedParts"
TypeImpersonated == "Impersonated"
TypeImpersonator == "Impersonator"
TypeHttpGet == "HttpGet"
TypeHttpPost == "HttpPost"
typeTestAccount == "Account"

ShareableAndPrivate ==
  {TypeHttpRequest, TypeHttpResponseWriter, TypeHttpRegexpMatchedParts,
   TypeSecret, TypeWSClient, TypeImpersonated, TypePublic, typeTestAccount, "B",
   TypePrivate}

Shareable ==
  {TypeHttpRequest, TypeHttpResponseWriter, TypeHttpRegexpMatchedParts,
   TypeSecret, TypeWSClient, TypeImpersonated, TypePublic, typeTestAccount, "B"}

ShareableAcrossImpersonation ==
  {TypeHttpRequest, TypeHttpResponseWriter, TypeHttpRegexpMatchedParts,
   TypeSecret, typeTestAccount, "A"}

Finalizeable == {"A", "B"}

(***************************************************************************)
(* Values.  t is the dynamic type, d the data, and n the identity of the   *)
(* object: its number in the order of creation, counted in nvals, so that  *)
(* two values are the same object iff they are equal.  For a Context, and  *)
(* for an object the engine makes for a Context, n is the Context's index  *)
(* in ctxs, and it is not counted; an object that exists before any        *)
(* Context (a test account, the handler's Secret) has n = 0.  NoVal is the *)
(* nil interface.                                                          *)
(***************************************************************************)
Val(t, n, d) == [t |-> t, n |-> n, d |-> d]
NoVal == Val("nil", 0, <<>>)
CtxVal(id) == Val(TypeContext, id, <<>>)

IsShareable(val) == val.t \in Shareable
IsShareableAcrossImpersonation(val) == val.t \in ShareableAcrossImpersonation
IsFinalizeable(val) == val.t \in Finalizeable

(***************************************************************************)
(* Errors.  code is 0 for an error that is not a jonson *Error.            *)
(***************************************************************************)
Err(code, msg, inst, chain) ==
  [code |-> code, msg |-> msg, inst |-> inst, chain |-> chain, details |-> <<>>,
   wrapped |-> FALSE]
NoErr == Err(0, "", "", <<>>)
ErrInternal == Err(-32603, "Internal error", "", <<>>)
ErrMethodNotFound == Err(-32601, "Method not found", "", <<>>)
ErrInvalidParams == Err(-32602, "Invalid params", "", <<>>)
ErrUnauthorized == Err(-32001, "Not authorized", "", <<>>)
ErrFinalized == Err(0, "context is already finalized", "", <<>>)
ErrNotFound == Err(0, "instance not found", "", <<>>)
ErrStored(rt) == Err(0, "value is already stored", rt, <<>>)
ErrUnknownProvider(rt) == Err(0, "factory: unknown provider type requested", rt, <<>>)
ErrProvider(rt) == Err(0, "provider failed", rt, <<>>)
ErrFinalizer(rt) == Err(0, "finalizer failed", rt, <<>>)
ErrMarshal == Err(0, "json: unsupported type", "", <<>>)
ErrHandler == Err(0, "handler failed", "", <<>>)
ErrNewPrivate == Err(0, "newPrivate: Not authorized", "", <<>>)
ErrParse == Err(-32700, "Parse error", "", <<>>)
ErrServerMethodNotAllowed == Err(-32000, "Server error: method not allowed", "", <<>>)
ErrUnauthenticated == Err(-32002, "Not authenticated", "", <<>>)
ErrTooManyRequests == Err(-32003, "Too many requests", "", <<>>)

\* AESSecret.Encode: the text enciphered; it is not the text.
Encode(in) == "aes(" \o in \o ")"

\* A PanicError that wraps e: it is no Error, and its text is the text of e.
\* Its Stack, ID and Method are left out, and of e all but the text.
PanicError(e) == [Err(0, e.msg, "", <<>>) EXCEPT !.wrapped = TRUE]

(***************************************************************************)
(* Context: the slot list and the finalized flag.  finlog records the      *)
(* calls made to Finalizeable.Finalize, in order; origin the code that     *)
(* created the Context.                                                    *)
(***************************************************************************)
valueItem(rt, val, valid) == [rt |-> rt, val |-> val, valid |-> valid]

HasTypeNever(values, rt) == FALSE

HasType(values, rt) == \E i \in 1..Len(values) : values[i].rt = rt
IndexOf(values, rt) == CHOOSE i \in 1..Len(values) : values[i].rt = rt

\* StoreValue: panics when the type already has a slot, else appends.
StoreValue(values, rt, val) ==
  IF HasType(values, rt)
    THEN [panic |-> TRUE, values |-> values]
    ELSE [panic |-> FALSE, values |-> Append(values, valueItem(rt, val, TRUE))]

\* NewContext: a Context whose only slot is itself.  The parent (the
\* cancellation handle, which no operation of the Context reads) is left out.
NewContext(id, origin) ==
  [values |-> StoreValue(<<>>, TypeContext, CtxVal(id)).values,
   finalized |-> FALSE,
   finlog |-> <<>>,
   origin |-> origin]

Invalidate(values, rts) == SelectSeq(values, LAMBDA v : v.rt \notin rts)

RECURSIVE ValidPrefix(_, _)
ValidPrefix(values, i) ==
  IF i > Len(values) \/ ~values[i].valid
    THEN <<>>
    ELSE <<values[i].rt>> \o ValidPrefix(values, i + 1)

\* debugRecursionLoop: the error names inst and lists the slots it walks.
debugRecursionLoop(values, inst) ==
  Err(0, "recursion loop while resolving", inst, ValidPrefix(values, 1))

RECURSIVE FinalizeLoopForward(_, _)
FinalizeLoopForward(values, i) ==
  IF i = 0
    THEN <<>>
    ELSE FinalizeLoopForward(values, i - 1)
         \o (IF IsFinalizeable(values[i].val) THEN <<values[i].val>> ELSE <<>>)

\* The calls of Finalize's loop, from the end of the list to its front.
RECURSIVE FinalizeLoop(_, _)
FinalizeLoop(values, i) ==
  IF i = 0
    THEN <<>>
    ELSE IF IsFinalizeable(values[i].val)
           THEN <<values[i].val>> \o FinalizeLoop(values, i - 1)
           ELSE FinalizeLoop(values, i - 1)

\* The error Finalize returns: inbound is the error passed in, called the
\* finalizers invoked, bad the types whose finalizer returns an error.  The
\* internal error is made with the debug text and an empty list of Details;
\* the list errs that Finalize builds from errors is not read again.
FinalizeResult(inbound, called, bad) ==
  LET errors == (IF inbound = NoErr THEN <<>> ELSE <<inbound>>)
                \o [i \in 1..Len(SelectSeq(called, LAMBDA v : v.t \in bad)) |->
                     ErrFinalizer(SelectSeq(called, LAMBDA v : v.t \in bad)[i].t)]
  IN IF Len(errors) = 0 THEN NoErr
     ELSE IF Len(errors) = 1 /\ errors[1] = inbound THEN inbound
     ELSE [ErrInternal EXCEPT !.inst = Encode("context: finalization failed"),
                              !.details = <<>>]

\* StoreValue for each of slots in turn, until one panics.
RECURSIVE StoreAll(_, _)
StoreAll(values, slots) ==
  IF Len(slots) = 0
    THEN [panic |-> FALSE, values |-> values]
    ELSE LET r == StoreValue(values, slots[1].rt, slots[1].val)
         IN IF r.panic THEN r ELSE StoreAll(r.values, Tail(slots))

\* GetValue: the value of the first valid slot of type inst.
GetValue(cx, inst) ==
  LET found == {i \in 1..Len(cx.values) : cx.values[i].rt = inst /\ cx.values[i].valid}
  IN IF cx.finalized THEN [val |-> NoVal, err |-> ErrFinalized]
     ELSE IF found # {}
       THEN [val |-> cx.values[CHOOSE i \in found : \A j \in found : i <= j].val,
             err |-> NoErr]
       ELSE [val |-> NoVal, err |-> ErrNotFound]

(***************************************************************************)
(* Frames of the call stack.                                               *)
(*   kind "body":    user code holding the Contexts hs: a test body, a     *)
(*                   method or regexp handler (name is the method), the    *)
(*                   function given to Impersonate (name "impersonate")    *)
(*   kind "wire":    callMethod, or buildArgs, resolving the arguments of  *)
(*                   the handler name from Context ctx, n of them done     *)
(*   kind "provide": Context.Require constructing name in Context ctx,     *)
(*                   the value to be object number n                       *)
(* last is the last operation of the frame: the operation, the Context it  *)
(* was called on, its argument (a type or a method), and what it returned  *)
(* or panicked with, and is empty while the operation runs.  snap is the   *)
(* slot list of ctx when the frame called CallMethod or Impersonate, kept  *)
(* until the frame's next operation.                                       *)
(***************************************************************************)
Last(op, c, arg, val, err, panic) ==
  [op |-> op, ctx |-> c, arg |-> arg, val |-> val, err |-> err, panic |-> panic]
NoLast == Last("", 0, "", NoVal, NoErr, FALSE)

Frame(kind, ctx, name, hs) ==
  [kind |-> kind, ctx |-> ctx, name |-> name, hs |-> hs, n |-> 0,
   snap |-> <<>>, last |-> NoLast]

Top == stack[Len(stack)]

\* The envelope of a request: where it came in, and its id; for a request
\* to the per-method HTTP endpoint, its verb and its path as well.
RpcSourceHttp == "http"
RpcSourceHttpRpc == "httpRpc"
RpcSourceWs == "ws"
Null == "null"
Request(source, id) == [source |-> source, id |-> id, verb |-> "", path |-> ""]
NoRequest == Request("", Null)

\* What a request was answered: val and err are the result and the error
\* handed out; resp is the list of response elements processRpcMessages
\* returns, status the HTTP status written (0: none) and body the list of
\* values marshalled and written as the body.
Reply(kind, val, err) ==
  [kind |-> kind, val |-> val, err |-> err, resp |-> <<>>, status |-> 0, body |-> <<>>]
NoReply == Reply("", NoVal, NoErr)

\* The state as a record, and the step to a state given as a record.  A
\* step starts with nothing logged and no handler having come back.
End(c, out) == [ctx |-> c, out |-> out]
NoEnd == End(0, "")

State ==
  [ctxs |-> ctxs, stack |-> stack, nvals |-> nvals, request |-> request,
   reply |-> reply, logged |-> <<>>, ended |-> NoEnd, rxerr |-> rxerr]

Becomes(S) ==
  /\ ctxs' = S.ctxs
  /\ stack' = S.stack
  /\ nvals' = S.nvals
  /\ request' = S.request
  /\ reply' = S.reply
  /\ logged' = S.logged
  /\ ended' = S.ended
  /\ rxerr' = S.rxerr
  /\ UNCHANGED <<budget, public, client, callers, unit>>

\* The running frame gets the result l of the operation it called; a wire
\* frame goes on to its next argument.
Resume(S, l) ==
  LET t == Len(S.stack)
  IN [S EXCEPT !.stack[t] =
        [@ EXCEPT !.last = l,
                  !.snap = IF l.op \in {"call", "impersonate"} THEN @ ELSE <<>>,
                  !.n = IF S.stack[t].kind = "wire" THEN @ + 1 ELSE @]]

\* The running frame calls into the frame f.
Push(S, f) ==
  LET t == Len(S.stack)
  IN [S EXCEPT !.stack = Append(IF t = 0 THEN @ ELSE [@ EXCEPT ![t].last = NoLast], f)]

RpcErrorBare(e) == IF e = NoErr THEN NoErr ELSE ErrInternal

\* The error of a response: a jonson Error as it is, any other error as an
\* internal error carrying the encoded message.
RpcError(e) ==
  IF e = NoErr THEN NoErr
  ELSE IF e.code # 0 THEN e
  ELSE [ErrInternal EXCEPT !.inst = Encode(e.msg)]

RecoveredWrapped(e) == PanicError(e)

\* What the recover of a handler call makes of the panic value e.
Recovered(e) == IF e.code # 0 THEN e ELSE PanicError(e)

LogNothing(S, c, e) == S

\* The recover of a handler call logs a panic value that is no Error, at
\* error severity, with the logger of the Context c of the call.
LogPanic(S, c, e) ==
  IF e.code # 0 THEN S ELSE [S EXCEPT !.logged = Append(@, [ctx |-> c, err |-> e])]

\* The response elements: NewRpcErrorResponse, NewRpcResultResponse, and
\* the nil that processRpcMessage returns for a notification.
NewRpcErrorResponse(id, e) == [type |-> "error", id |-> id, result |-> NoVal, error |-> e]
NewRpcResultResponse(id, result) ==
  [type |-> "result", id |-> id, result |-> result, error |-> NoErr]
NilResponse == [type |-> "nil", id |-> Null, result |-> NoVal, error |-> NoErr]

\* processRpcMessage, from the error that Finalize returned on.
RpcResponse(id, res, err) ==
  IF err # NoErr
    THEN NewRpcErrorResponse(id, RpcError(err))
    ELSE IF id = Null THEN NilResponse
    ELSE NewRpcResultResponse(id, res)

HttpStatusCodeBasicAuth(r) == IF r.code = ErrUnauthorized.code THEN 401 ELSE 500

HttpStatusCode(r) ==
  CASE r.code = ErrServerMethodNotAllowed.code -> 405
    [] r.code \in {ErrInvalidParams.code, ErrParse.code} -> 400
    [] r.code \in {ErrUnauthorized.code, ErrUnauthenticated.code} -> 403
    [] r.code = ErrMethodNotFound.code -> 404
    [] r.code = ErrTooManyRequests.code -> 429
    [] OTHER -> 500

\* What the transport of the request answers with the response element
\* rsp of processRpcMessage.  HttpMethodHandler.Handle starts from status
\* 204 and marshals the result, or the error, or nil; the handlers of the
\* batched endpoint and of the websocket drop a nil from the list, and the
\* first answers 200 whether the list is empty or not.
Respond(source, rsp) ==
  LET r == [Reply("rpc", rsp.result, rsp.error) EXCEPT
              !.resp = IF rsp.type = "nil" THEN <<>> ELSE <<rsp>>]
  IN CASE source = RpcSourceHttp ->
            [r EXCEPT !.status = CASE rsp.type = "result" -> 200
                                   [] rsp.type = "error" -> HttpStatusCode(rsp.error)
                                   [] OTHER -> 204,
                      !.body = CASE rsp.type = "result" -> <<rsp.result>>
                                 [] rsp.type = "error" -> <<rsp.error>>
                                 [] OTHER -> <<NoVal>>]
       [] source = RpcSourceHttpRpc ->
            [r EXCEPT !.status = 200,
                      !.body = IF rsp.type = "nil" THEN <<>> ELSE <<rsp>>]
       [] OTHER ->
            [r EXCEPT !.body = IF rsp.type = "nil" THEN <<>> ELSE <<rsp>>]

\* What the handler RegisterRegexp registers leaves as the response, from
\* the error that Finalize returned on.  A handler that wrote (res is not
\* nil; written with the status 200) is done; otherwise an error is
\* written as the body, with its status, and no error leaves the response
\* unwritten.
RespondRegexp(res, err) ==
  IF res # NoVal
    THEN [Reply("regex", res, NoErr) EXCEPT !.status = 200, !.body = <<res>>]
  ELSE IF err # NoErr
    THEN [Reply("regex", NoVal, RpcError(err)) EXCEPT
            !.status = HttpStatusCode(RpcError(err)), !.body = <<RpcError(err)>>]
  ELSE Reply("regex", NoVal, NoErr)

FinalizeSkipped(cs, c, inbound, bad) == [ctxs |-> cs, err |-> inbound]

\* Context.Finalize(inbound): bad are the types whose finalizer fails.
Finalize(cs, c, inbound, bad) ==
  IF cs[c].finalized
    THEN [ctxs |-> cs, err |-> inbound]
    ELSE LET called == FinalizeLoop(cs[c].values, Len(cs[c].values))
         IN [ctxs |-> [cs EXCEPT ![c].finalized = TRUE,
                                 ![c].finlog = @ \o called,
                                 ![c].values = <<>>],
             err |-> FinalizeResult(inbound, called, bad)]

(***************************************************************************)
(* The end of a call: callMethod (or the regexp handler's inner function,  *)
(* or the test function) has come back with (res, err) for the frame f,    *)
(* already popped.  The code that created the Context of the call          *)
(* finalizes it and hands the outcome on:                                  *)
(*   "internal"  Context.CallMethod, to the calling frame                  *)
(*   "rpc"       processRpcMessage, as the response                        *)
(*   "regex"     the handler RegisterRegexp registers, as the response     *)
(*   "test"      TestContextBoundary.Run                                   *)
(* The finalizers of these runs return nil.  The logger the engine         *)
(* requires from the Context on a failure, before it finalizes it, is      *)
(* left out: it bears no marker and is dropped with the slot list.         *)
(***************************************************************************)
Complete(S, f, res, err) ==
  LET fin == Finalize(S.ctxs, f.ctx, err, {})
      o == S.ctxs[f.ctx].origin
      t == Len(S.stack)
  IN CASE o = "internal" ->
            Resume([S EXCEPT !.ctxs = fin.ctxs],
                   Last("call", S.stack[t].ctx, f.name,
                        IF fin.err = NoErr THEN res ELSE NoVal, fin.err, FALSE))
       [] o = "rpc" ->
            [S EXCEPT !.ctxs = fin.ctxs,
                      !.reply = Respond(S.request.source,
                                        RpcResponse(S.request.id, res, fin.err))]
       [] o = "regex" ->
            [S EXCEPT !.ctxs = fin.ctxs,
                      !.rxerr = fin.err,
                      !.reply = RespondRegexp(res, fin.err)]
       [] OTHER ->
            [S EXCEPT !.ctxs = fin.ctxs,
                      !.reply = Reply("test", NoVal, fin.err)]

\* The frames below the provide frames at the top: where a panic in a
\* provider is recovered.
RECURSIVE Unwind(_)
Unwind(s) ==
  IF Len(s) = 0 \/ s[Len(s)].kind # "provide"
    THEN s
    ELSE Unwind(SubSeq(s, 1, Len(s) - 1))

\* A panic with err in operation op(arg) on Context c.  In user code it
\* reaches the frame that called the operation; in the wiring of a call it
\* is recovered and ends the call (callMethod returns the error, buildArgs
\* returns it and the regexp handler panics with it).
Raise(S, op, c, arg, err) ==
  LET u == Unwind(S.stack)
      t == Len(u)
  IN IF u[t].kind = "wire"
       THEN IF S.ctxs[u[t].ctx].origin = "regex"
              THEN Complete(LogPanic([S EXCEPT !.stack = SubSeq(u, 1, t - 1)], u[t].ctx, err),
                            u[t], NoVal, Recovered(err))
              ELSE Complete([S EXCEPT !.stack = SubSeq(u, 1, t - 1)], u[t], NoVal, err)
       ELSE Resume([S EXCEPT !.stack = u], Last(op, c, arg, NoVal, err, TRUE))

(***************************************************************************)
(* The AuthClient of the tests: which account may call which method, and   *)
(* which account may impersonate which.                                    *)
(***************************************************************************)
Accounts == {"accSuperUser", "accLimited"}
fullAccess == {"accSuperUser"}
methodAccess == {<<"accLimited", "system/set.v1", "POST">>}
canImpersonate == {<<"accSuperUser", "accLimited">>}

Account(uuid) == Val(typeTestAccount, 0, <<uuid>>)

checkImpersonation(cx, mainAccount) ==
  LET imp == GetValue(cx, TypeImpersonated).val
      allAccounts == <<mainAccount>> \o imp.d
  IN IF imp = NoVal THEN [uuid |-> mainAccount, err |-> NoErr]
     ELSE IF \A i \in 1..(Len(allAccounts) - 1) :
               <<allAccounts[i], allAccounts[i + 1]>> \in canImpersonate
       THEN [uuid |-> imp.d[Len(imp.d)], err |-> NoErr]
       ELSE [uuid |-> "", err |-> ErrUnauthorized]

\* IsAuthorized: uuid "" with no error is the answer (nil, nil).  meta is
\* read only where the Context has an RpcMeta.
IsAuthorized(cx) ==
  LET existing == GetValue(cx, typeTestAccount)
      ci == checkImpersonation(cx, existing.val.d[1])
      meta == GetValue(cx, TypeRpcMeta).val
  IN IF existing.err # NoErr THEN [uuid |-> "", err |-> NoErr]
     ELSE IF ci.err # NoErr THEN ci
     ELSE IF ci.uuid \in fullAccess THEN ci
     ELSE IF meta # NoVal /\ <<ci.uuid, meta.d[1], meta.d[2]>> \in methodAccess THEN ci
     ELSE [uuid |-> "", err |-> NoErr]

\* NewPrivate: panics unless the client names the authorized account.
NewPrivate(cx) ==
  LET resp == IsAuthorized(cx)
  IN IF resp.err # NoErr THEN [panic |-> TRUE, err |-> ErrNewPrivate, d |-> <<>>]
     ELSE IF resp.uuid = "" THEN [panic |-> TRUE, err |-> ErrUnauthorized, d |-> <<>>]
     ELSE [panic |-> FALSE, err |-> NoErr, d |-> <<resp.uuid>>]

\* The accounts logged in once the test has set the accounts up: Authorized
\* makes an account Authenticated.  accGuest is neither until it logs in.
Guests == {"accGuest"}
authenticated == fullAccess \cup {a[1] : a \in methodAccess}

\* The AuthClient after the set-up; calls counts its is-authenticated calls.
NewAuthClientMock == [authenticated |-> authenticated, calls |-> 0]

\* IsAuthenticated, given the accounts logged in: uuid "" with no error is
\* the answer (nil, nil).
IsAuthenticated(cx, loggedIn) ==
  LET existing == GetValue(cx, typeTestAccount)
  IN IF existing.err # NoErr THEN [uuid |-> "", err |-> NoErr]
     ELSE IF existing.val.d[1] \notin loggedIn THEN [uuid |-> "", err |-> NoErr]
     ELSE checkImpersonation(cx, existing.val.d[1])

(***************************************************************************)
(* Public.  The fields of the Public made by NewPublic: accountUuid "" is  *)
(* the nil pointer, mux is the goroutine holding the mutex, or Nobody.     *)
(* resolved lists what each resolution of the account found, in order.     *)
(***************************************************************************)
Callers == 1..MaxCallers
Nobody == 0

Answer(uuid, err) == [uuid |-> uuid, err |-> err]

NewPublic ==
  [checked |-> FALSE, accountUuid |-> "", err |-> NoErr, mux |-> Nobody,
   resolved |-> <<>>]

\* A goroutine: where it is in AccountUuid(ctx), whether its last call
\* found the mutex held, and what that call returned.
Caller(pc, ctx, waited, ret) ==
  [pc |-> pc, ctx |-> ctx, waited |-> waited, ret |-> ret]
NoCallers == [g \in Callers |-> Caller("idle", 0, FALSE, Answer("", NoErr))]

(***************************************************************************)
(* The Factory: the types that have a provider, and the types each         *)
(* provider may require from the Context it is given.                      *)
(***************************************************************************)
Providers == {"A", "B", "C", TypePrivate, TypeHttpGet, TypeHttpPost}

\* NewHttpGet and NewHttpPost, by the verb each stands for: a call that
\* did not come in by the per-method HTTP endpoint passes, and one that did
\* passes if the request has the verb.
NewHttpVerb(cx, verb) ==
  LET meta == GetValue(cx, TypeRpcMeta)
      req == GetValue(cx, TypeHttpRequest)
  IN IF meta.err # NoErr
       THEN [panic |-> TRUE, err |-> ErrUnknownProvider(TypeRpcMeta), d |-> <<>>]
     ELSE IF meta.val.d[3] # RpcSourceHttp
       THEN [panic |-> FALSE, err |-> NoErr, d |-> <<>>]
     ELSE IF req.err # NoErr
       THEN [panic |-> TRUE, err |-> ErrUnknownProvider(TypeHttpRequest), d |-> <<>>]
     ELSE IF req.val.d[1] # verb
       THEN [panic |-> TRUE, err |-> ErrServerMethodNotAllowed, d |-> <<>>]
     ELSE [panic |-> FALSE, err |-> NoErr, d |-> <<>>]

NewHttpGet(cx) == NewHttpVerb(cx, "GET")
NewHttpPost(cx) == NewHttpVerb(cx, "POST")

\* The providers whose outcome the Context decides; any other provider of
\* the model may return or panic.
Decided == {TypePrivate, TypeHttpGet, TypeHttpPost}

Provided(rt, cx) ==
  CASE rt = TypePrivate -> NewPrivate(cx)
    [] rt = TypeHttpGet -> NewHttpGet(cx)
    [] rt = TypeHttpPost -> NewHttpPost(cx)
    [] OTHER -> [panic |-> TRUE, err |-> ErrProvider(rt), d |-> <<>>]

Deps(rt) ==
  CASE rt = "A" -> {"B"}
    [] rt = "B" -> {"A"}
    [] rt = "C" -> {"A"}
    [] OTHER -> {}

(***************************************************************************)
(* Context.Require, as called by the running frame on Context c.           *)
(***************************************************************************)
Require(c, inst) ==
  LET values == ctxs[c].values IN
  IF ctxs[c].finalized
    THEN Becomes(Raise(State, "require", c, inst, ErrFinalized))
  ELSE IF HasType(values, inst)
    THEN IF ~values[IndexOf(values, inst)].valid
           THEN Becomes(Raise(State, "require", c, inst, debugRecursionLoop(values, inst)))
           ELSE Becomes(Resume(State, Last("require", c, inst,
                                           values[IndexOf(values, inst)].val, NoErr, FALSE)))
  ELSE /\ nvals < budget
       /\ LET S1 == [State EXCEPT !.ctxs[c].values = Append(@, valueItem(inst, NoVal, FALSE)),
                                  !.nvals = @ + 1]
          IN IF inst \in Providers
               THEN Becomes(Push(S1, [Frame("provide", c, inst, {}) EXCEPT !.n = nvals + 1]))
               ELSE Becomes(Raise(S1, "require", c, inst, ErrUnknownProvider(inst)))

\* The provider returns: Require sets the slot's value and marks it valid.
ProvideReturn ==
  /\ Len(stack) > 0 /\ Top.kind = "provide"
  /\ Top.name \in Decided => ~Provided(Top.name, ctxs[Top.ctx]).panic
  /\ LET c == Top.ctx
         rt == Top.name
         val == Val(rt, Top.n, IF rt \in Decided THEN Provided(rt, ctxs[c]).d ELSE <<>>)
         S1 == [State EXCEPT !.ctxs[c].values =
                               [i \in 1..Len(@) |->
                                  IF @[i].rt = rt THEN valueItem(rt, val, TRUE) ELSE @[i]],
                             !.stack = SubSeq(@, 1, Len(@) - 1)]
     IN Becomes(Resume(S1, Last("require", c, rt, val, NoErr, FALSE)))

\* The provider panics; the slot it was constructing stays in the list.
ProvidePanic ==
  /\ Len(stack) > 0 /\ Top.kind = "provide"
  /\ Top.name \in Decided => Provided(Top.name, ctxs[Top.ctx]).panic
  /\ Becomes(Raise(State, "require", Top.ctx, Top.name, Provided(Top.name, ctxs[Top.ctx]).err))

\* The provider requires one of its dependencies.
ProvideRequire(dep) ==
  /\ Len(stack) > 0 /\ Top.kind = "provide"
  /\ dep \in Deps(Top.name)
  /\ Require(Top.ctx, dep)

(***************************************************************************)
(* Operations of user code on a Context it holds.                          *)
(***************************************************************************)
InBody(c) ==
  Len(stack) > 0 /\ Top.kind = "body" /\ c \in Top.hs /\ ctxs[Top.ctx].origin = "user"

CtxRequire(c, inst) ==
  /\ InBody(c)
  /\ Require(c, inst)

CtxStoreValue(c, rt) ==
  /\ InBody(c)
  /\ nvals < budget
  /\ LET val == Val(rt, nvals + 1, <<>>)
         r == StoreValue(ctxs[c].values, rt, val)
     IN IF r.panic
          THEN Becomes(Resume(State, Last("store", c, rt, NoVal, ErrStored(rt), TRUE)))
          ELSE Becomes(Resume([State EXCEPT !.ctxs[c].values = r.values, !.nvals = @ + 1],
                              Last("store", c, rt, val, NoErr, FALSE)))

CtxGetValue(c, inst) ==
  /\ InBody(c)
  /\ LET r == GetValue(ctxs[c], inst)
     IN Becomes(Resume(State, Last("get", c, inst, r.val, r.err, FALSE)))

CtxInvalidate(c, rts) ==
  /\ InBody(c)
  /\ Becomes(Resume([State EXCEPT !.ctxs[c].values = Invalidate(@, rts)],
                    Last("invalidate", c, "", NoVal, NoErr, FALSE)))

CtxFinalize(c, inbound, bad) ==
  /\ InBody(c)
  /\ LET r == Finalize(ctxs, c, inbound, bad)
     IN Becomes(Resume([State EXCEPT !.ctxs = r.ctxs],
                       Last("finalize", c, "", NoVal, r.err, FALSE)))

\* Fork and New: a fresh Context, empty but for its own slot (they differ in
\* the parent they hand to NewContext).
CtxFork(c) ==
  /\ InBody(c)
  /\ nvals < budget
  /\ LET id == Len(ctxs) + 1
         S1 == [State EXCEPT !.ctxs = Append(@, NewContext(id, "user")),
                             !.stack[Len(stack)].hs = @ \cup {id},
                             !.nvals = @ + 1]
     IN Becomes(Resume(S1, Last("fork", c, "", CtxVal(id), NoErr, FALSE)))

CtxNew(c) ==
  /\ InBody(c)
  /\ nvals < budget
  /\ LET id == Len(ctxs) + 1
         S1 == [State EXCEPT !.ctxs = Append(@, NewContext(id, "user")),
                             !.stack[Len(stack)].hs = @ \cup {id},
                             !.nvals = @ + 1]
     IN Becomes(Resume(S1, Last("new", c, "", CtxVal(id), NoErr, FALSE)))

\* Clone: forks, appends the valid slots of c to the fork, and returns c.
CtxClone(c) ==
  /\ InBody(c)
  /\ nvals < budget
  /\ LET id == Len(ctxs) + 1
         forked == NewContext(id, "user")
         copied == SelectSeq(ctxs[c].values, LAMBDA v : v.valid)
         S1 == [State EXCEPT !.ctxs = Append(@, [forked EXCEPT !.values = @ \o copied]),
                             !.nvals = @ + 1]
     IN Becomes(Resume(S1, Last("clone", c, "", CtxVal(c), NoErr, FALSE)))

(***************************************************************************)
(* SpecCtx: one piece of user code working on Contexts it created.         *)
(***************************************************************************)
StoredTypes == {typeTestAccount, "B"}
RequiredTypes == {"A", "B", "C"}
ReadTypes == {"A", "B"}
InvalidatedSets == {{"A"}, {"B"}, {"A", "B"}}
Inbound == {NoErr, ErrUnauthorized}
BadFinalizers == {{}, {"B"}}

InitCtx ==
  /\ ctxs = <<NewContext(1, "user")>>
  /\ stack = <<Frame("body", 1, "test", {1})>>
  /\ nvals = 1
  /\ budget = MaxInserts
  /\ request = NoRequest
  /\ reply = NoReply
  /\ logged = <<>>
  /\ ended = NoEnd
  /\ rxerr = NoErr
  /\ public = NewPublic
  /\ client = NewAuthClientMock
  /\ callers = NoCallers
  /\ InitUnit

NextCtx ==
  \/ \E c \in DOMAIN ctxs, rt \in StoredTypes : CtxStoreValue(c, rt)
  \/ \E c \in DOMAIN ctxs, inst \in RequiredTypes : CtxRequire(c, inst)
  \/ \E c \in DOMAIN ctxs, inst \in ReadTypes : CtxGetValue(c, inst)
  \/ \E c \in DOMAIN ctxs, rts \in InvalidatedSets : CtxInvalidate(c, rts)
  \/ \E c \in DOMAIN ctxs, inbound \in Inbound, bad \in BadFinalizers :
       CtxFinalize(c, inbound, bad)
  \/ \E c \in DOMAIN ctxs : CtxFork(c)
  \/ \E c \in DOMAIN ctxs : CtxNew(c)
  \/ \E c \in DOMAIN ctxs : CtxClone(c)
  \/ \E dep \in Providers : ProvideRequire(dep)
  \/ ProvideReturn
  \/ ProvidePanic

SpecCtx == InitCtx /\ [][NextCtx]_vars

(***************************************************************************)
(* The Method Handler.  Endpoints are the registered methods; PlanOf is    *)
(* the handler's argument list after the *Context: provided types, and     *)
(* "params" at the position of the parameters.  "regexp" is the handler    *)
(* registered with the regexp router.                                      *)
(***************************************************************************)
Endpoints ==
  {"system/set.v1", "system/get.v1", "account/get-profile.v1", "system/get-nested.v1",
   "test-system/current-time.v1", "test-system/get-profile.v1",
   "system/complex-response.v1"}
Methods == {"system/set.v1", "system/get.v1", "account/get-profile.v1", "system/none.v1"}
RegexpMethod == "regexp"

PlanOf(m) ==
  CASE m = "system/set.v1" -> <<TypePrivate>>
    [] m = "system/get.v1" -> <<TypePrivate>>
    [] m = "account/get-profile.v1" -> <<"B", "params">>
    [] m = "system/get-nested.v1" -> <<TypePrivate, "params">>
    [] m = "test-system/current-time.v1" -> <<"B", TypeHttpGet>>
    [] m = "test-system/get-profile.v1" -> <<"B", TypeHttpPost, "params">>
    [] m = "system/complex-response.v1" -> <<>>
    [] OTHER -> <<"B">>

RpcSources == {RpcSourceHttp, RpcSourceHttpRpc, RpcSourceWs}

\* The envelopes: HttpMethodHandler.Handle makes one with the id -1; the
\* batched endpoint and the websocket take the id of the envelope read,
\* null or left out in a notification.  Notifications are followed on the
\* batched endpoint.
RpcIds(source) ==
  CASE source = RpcSourceHttp -> {"-1"}
    [] source = RpcSourceHttpRpc -> {Null, "1"}
    [] OTHER -> {"1"}

\* The result of the handler of m when it returns no error: System.GetV1
\* and System.SetV1 return an error only.
ResultOf(m) ==
  IF m \in {"system/set.v1", "system/get.v1"} THEN NoVal ELSE Val("result", 0, <<m>>)
RpcSourceInternal == "internal"
RpcHttpMethodPost == "POST"

\* The objects the engine makes for the Context id are told apart by id.
RpcMeta(id, method, httpMethod, source) ==
  Val(TypeRpcMeta, id, <<method, httpMethod, source>>)

Slot(val) == valueItem(val.t, val, TRUE)

\* A Context made by NewContext and handed over with slots stored in it.
\* panic: one of the stores panicked.
NewContextWith(id, origin, slots) ==
  LET fresh == NewContext(id, origin)
      r == StoreAll(fresh.values, slots)
  IN [ctx |-> [fresh EXCEPT !.values = r.values],
      panic |-> r.panic]

EnterShared(S, c, m) ==
  LET on == IF Len(S.stack) = 0 THEN c ELSE S.stack[Len(S.stack)].ctx
  IN IF m \notin Endpoints
       THEN Complete(S, Frame("wire", on, m, {}), NoVal, ErrMethodNotFound)
       ELSE Push(S, Frame("wire", on, m, {}))

\* callMethod, up to its first argument: an unknown method ends the call.
Enter(S, c, m) ==
  IF m \notin Endpoints
    THEN Complete(S, Frame("wire", c, m, {}), NoVal, ErrMethodNotFound)
    ELSE Push(S, Frame("wire", c, m, {}))

HasParams(m) == \E i \in DOMAIN PlanOf(m) : PlanOf(m)[i] = "params"

\* No request is running.  Requests other than to the regexp handler are
\* followed as long as the regexp handler has left no error in err.
Idle == stack = <<>>

\* TestContextBoundary.Run with the option account.Provide.
RunTest(uuid) ==
  /\ Idle /\ rxerr = NoErr
  /\ LET made == NewContextWith(1, "test", <<Slot(Account(uuid))>>)
     IN Becomes([State EXCEPT !.ctxs = <<made.ctx>>,
                              !.stack = <<Frame("body", 1, "test", {1})>>,
                              !.nvals = 0,
                              !.request = NoRequest,
                              !.reply = NoReply])

\* processRpcMessage for a request of method m.
ServeRpc(m, source, id) ==
  /\ Idle /\ rxerr = NoErr
  /\ id \in RpcIds(source)
  /\ LET slots == <<Slot(Val(TypeHttpRequest, 1, <<RpcHttpMethodPost>>)),
                    Slot(Val(TypeHttpResponseWriter, 1, <<>>))>>
                  \o (IF source = RpcSourceWs THEN <<Slot(Val(TypeWSClient, 0, <<>>))>> ELSE <<>>)
                  \o <<Slot(RpcMeta(1, m, RpcHttpMethodPost, source))>>
         made == NewContextWith(1, "rpc", slots)
     IN Becomes(Enter([State EXCEPT !.ctxs = <<made.ctx>>, !.nvals = 0,
                                    !.request = Request(source, id),
                                    !.reply = NoReply], 1, m))

\* The handler RegisterRegexp registers, up to buildArgs.
ServeRegexp ==
  /\ Idle
  /\ LET slots == <<Slot(Val(TypeHttpRequest, 1, <<"GET">>)),
                    Slot(Val(TypeHttpResponseWriter, 1, <<>>)),
                    Slot(Val(TypeSecret, 0, <<>>)),
                    Slot(Val(TypeHttpRegexpMatchedParts, 1, <<>>)),
                    Slot(RpcMeta(1, RegexpMethod, "GET", RpcSourceHttp))>>
         made == NewContextWith(1, "regex", slots)
     IN Becomes([State EXCEPT !.ctxs = <<made.ctx>>,
                              !.stack = <<Frame("wire", 1, RegexpMethod, {})>>,
                              !.nvals = 0,
                              !.request = NoRequest,
                              !.reply = NoReply])

Wiring == Len(stack) > 0 /\ Top.kind = "wire"
NextArg == PlanOf(Top.name)[Top.n + 1]

\* callMethod at the parameters: UnmarshalAndValidate succeeds or fails.
WireParams(ok) ==
  /\ Wiring /\ Top.n < Len(PlanOf(Top.name)) /\ NextArg = "params"
  /\ IF ok
       THEN Becomes(Resume(State, Last("params", Top.ctx, "", NoVal, NoErr, FALSE)))
       ELSE Becomes(Complete([State EXCEPT !.stack = SubSeq(@, 1, Len(@) - 1)],
                             Top, NoVal, ErrInvalidParams))

\* callMethod, or buildArgs, at a provided argument.
WireRequire ==
  /\ Wiring /\ Top.n < Len(PlanOf(Top.name)) /\ NextArg # "params"
  /\ Require(Top.ctx, NextArg)

\* All arguments are there: the handler is called.
WireCall ==
  /\ Wiring /\ Top.n = Len(PlanOf(Top.name))
  /\ Becomes([State EXCEPT !.stack[Len(stack)] =
                              Frame("body", Top.ctx, Top.name, {Top.ctx})])

(***************************************************************************)
(* What a handler, a test body or an impersonation function does with the  *)
(* Context it was given.  System.GetV1 returns nil; System.SetV1 calls     *)
(* system/get.v1 and returns its error; any other body is free.            *)
(***************************************************************************)
InCode == Len(stack) > 0 /\ Top.kind = "body" /\ ctxs[Top.ctx].origin # "user"

Free == Top.name \notin {"system/get.v1", "system/set.v1"}

SetV1Calls(m, marshals) ==
  /\ Top.name = "system/set.v1" /\ Top.last.op # "call"
  /\ m = "system/get.v1" /\ marshals

SetV1Returns(out) ==
  /\ Top.name = "system/set.v1" /\ Top.last.op = "call"
  /\ out = (IF Top.last.err # NoErr THEN "fail" ELSE "return")

GetV1Returns(out) == Top.name = "system/get.v1" /\ out = "return"

BodyTypes == {"B"}
ImpersonatedAccounts == {"accLimited"}
BodyInvalidated == {{"B"}}
Outcomes == {"return", "nil", "fail", "panic"}

BodyRequire(inst) ==
  /\ InCode /\ Free
  /\ Require(Top.ctx, inst)

BodyInvalidate(rts) ==
  /\ InCode /\ Free
  /\ Becomes(Resume([State EXCEPT !.ctxs[Top.ctx].values = Invalidate(@, rts)],
                    Last("invalidate", Top.ctx, "", NoVal, NoErr, FALSE)))

\* The slots a fork would get by the marker of the impersonation boundary.
CopyAcrossBoundary(values) ==
  SelectSeq(values, LAMBDA v : v.valid /\ IsShareableAcrossImpersonation(v.val))

CopyMarked(values) ==
  SelectSeq(values, LAMBDA v : v.valid /\ (IsShareable(v.val)
                                            \/ IsShareableAcrossImpersonation(v.val)))

\* The slots CallMethod copies to the fork.
CopyShareable(values) ==
  SelectSeq(values, LAMBDA v : v.valid /\ IsShareable(v.val))

\* Context.CallMethod(m, POST, payload); marshals: the payload can be
\* encoded, as the nil payload of a method without parameters can.
BodyCallMethod(m, marshals) ==
  /\ InCode /\ (Free \/ SetV1Calls(m, marshals))
  /\ marshals \/ HasParams(m)
  /\ LET c == Top.ctx
         t == Len(stack)
         id == Len(ctxs) + 1
         slots == CopyShareable(ctxs[c].values)
                  \o <<Slot(RpcMeta(id, m, RpcHttpMethodPost, RpcSourceInternal))>>
         made == NewContextWith(id, "internal", slots)
         S0 == [State EXCEPT !.stack[t].snap = ctxs[c].values]
         S1 == [S0 EXCEPT !.ctxs = Append(@, made.ctx)]
     IN IF ~marshals
          THEN Becomes(Resume(S0, Last("call", c, m, NoVal, ErrMarshal, FALSE)))
          ELSE /\ Len(ctxs) < MaxCtx
               /\ IF made.panic
                    THEN Becomes(Resume(S1, Last("call", c, m, NoVal, ErrStored(""), TRUE)))
                    ELSE Becomes(Enter(S1, id, m))

CopyAnyMarker(values) ==
  SelectSeq(values, LAMBDA v : v.valid /\ (IsShareableAcrossImpersonation(v.val)
                                            \/ IsShareable(v.val)))

\* The slots Impersonate copies to the fork.
CopyAcrossImpersonation(values) ==
  SelectSeq(values, LAMBDA v : v.valid /\ IsShareableAcrossImpersonation(v.val))

\* The Contexts whose Impersonator the running code can use: the Context
\* it runs with (RequireImpersonator makes its Impersonator where it has
\* none), and the Context of a function this one is written in, where that
\* function has required its Impersonator (a handler calling Impersonate on
\* the same Impersonator inside the function it gave to Impersonate).
Impersonators ==
  {Top.ctx} \cup
  {stack[j].ctx : j \in {k \in 1..(Len(stack) - 1) :
      /\ stack[k].kind = "body"
      /\ \A l \in (k + 1)..Len(stack) :
            stack[l].kind = "body" /\ stack[l].name = "impersonate"
      /\ GetValue(ctxs[stack[k].ctx], TypeImpersonator).err = NoErr}}

\* Impersonate(uuid, fn) on the Impersonator of the Context ic, up to the
\* call of fn.  NewImpersonator keeps the Context it is constructed in, and
\* Impersonate forks that Context.
BodyImpersonate(ic, uuid) ==
  /\ InCode /\ Free
  /\ ic \in Impersonators
  /\ Len(ctxs) < MaxCtx
  /\ LET c == Top.ctx
         t == Len(stack)
         id == Len(ctxs) + 1
         values == IF HasType(ctxs[ic].values, TypeImpersonator)
                     THEN ctxs[ic].values
                     ELSE Append(ctxs[ic].values, Slot(Val(TypeImpersonator, ic, <<>>)))
         existing == GetValue([ctxs[ic] EXCEPT !.values = values], TypeImpersonated).val
         imp == Val(TypeImpersonated, id, existing.d \o <<uuid>>)
         made == NewContextWith(id, "impersonate",
                                CopyAcrossImpersonation(values) \o <<Slot(imp)>>)
         S0 == [State EXCEPT !.ctxs[ic].values = values]
         S1 == [S0 EXCEPT !.ctxs = Append(@, made.ctx),
                          !.stack[t].snap = S0.ctxs[c].values]
     IN IF made.panic
          THEN Becomes(Resume(S1, Last("impersonate", c, uuid, NoVal, ErrStored(""), TRUE)))
          ELSE Becomes(Push(S1, Frame("body", id, "impersonate", {id})))

\* The error a body fails or panics with: the one it got last, or its own.
Failure == IF Top.last.err # NoErr THEN Top.last.err ELSE ErrHandler

\* The body ends: it returns no error (a handler: with its result, or as
\* "nil" with a nil result; a regexp handler: after writing its response),
\* returns an error, or panics.
BodyEnds(out, failure) ==
  /\ InCode /\ (Free \/ SetV1Returns(out) \/ GetV1Returns(out))
  /\ out = "nil" => (Free /\ ctxs[Top.ctx].origin \in {"rpc", "internal"})
  /\ LET f == Top
         o == ctxs[f.ctx].origin
         S1 == [State EXCEPT !.stack = SubSeq(@, 1, Len(@) - 1),
                             !.ended = IF o \in {"rpc", "internal"} THEN End(f.ctx, out)
                                       ELSE NoEnd]
         res == IF out = "return" THEN ResultOf(f.name) ELSE NoVal
         err == IF out \in {"return", "nil"} THEN NoErr ELSE failure
         S2 == IF out = "panic" THEN LogPanic(S1, f.ctx, err) ELSE S1
     IN CASE o = "impersonate" ->
               Becomes(Resume(S1, Last("impersonate", S1.stack[Len(S1.stack)].ctx, "",
                                       NoVal, err, out = "panic")))
          [] o = "regex" ->
               Becomes(Complete(S2, f, res,
                                IF out = "panic" THEN Recovered(err) ELSE rxerr))
          [] o = "test" ->
               Becomes(Complete(S1, f, NoVal, err))
          [] OTHER ->
               Becomes(Complete(S2, f, res,
                                IF out = "panic" THEN Recovered(err) ELSE err))

BodyReturn(out) == BodyEnds(out, Failure)

\* A handler returns an Error of its own.
HandlerErrors == {ErrTooManyRequests, ErrUnauthenticated}

BodyReturnError(e) ==
  /\ InCode /\ Free /\ Top.last = NoLast
  /\ BodyEnds("fail", e)

(***************************************************************************)
(* Spec: requests and test runs, one after the other, and what their       *)
(* handlers do.  The Contexts of a request that is over are garbage: ctxs  *)
(* holds those of the running, or last, request only, and the numbering of *)
(* objects starts again.                                                   *)
(***************************************************************************)
Init ==
  /\ ctxs = <<>>
  /\ stack = <<>>
  /\ nvals = 0
  /\ budget = MaxCallInserts
  /\ request = NoRequest
  /\ reply = NoReply
  /\ logged = <<>>
  /\ ended = NoEnd
  /\ rxerr = NoErr
  /\ public = NewPublic
  /\ client = NewAuthClientMock
  /\ callers = NoCallers
  /\ InitUnit

Next ==
  \/ \E uuid \in Accounts : RunTest(uuid)
  \/ \E m \in Methods, source \in RpcSources, id \in {Null, "1", "-1"} :
       ServeRpc(m, source, id)
  \/ ServeRegexp
  \/ \E ok \in BOOLEAN : WireParams(ok)
  \/ WireRequire
  \/ WireCall
  \/ \E inst \in BodyTypes : BodyRequire(inst)
  \/ \E rts \in BodyInvalidated : BodyInvalidate(rts)
  \/ \E m \in Methods, marshals \in BOOLEAN : BodyCallMethod(m, marshals)
  \/ \E ic \in DOMAIN ctxs, uuid \in ImpersonatedAccounts : BodyImpersonate(ic, uuid)
  \/ \E out \in Outcomes : BodyReturn(out)
  \/ \E dep \in Providers : ProvideRequire(dep)
  \/ ProvideReturn
  \/ ProvidePanic

Spec == Init /\ [][Next]_vars

(***************************************************************************)
(* The per-method HTTP endpoint: HttpMethodHandler.Handle for a request    *)
(* of the path p with the verb, one request after the other.  decodes: the *)
(* body of the request is one JSON value; the body is read for a method    *)
(* that takes parameters only.  A path that is no endpoint is left to the  *)
(* next handler of the server.                                             *)
(***************************************************************************)
HttpVerbs == {"GET", "POST", "PUT"}
HttpPaths ==
  {"system/get-nested.v1", "test-system/current-time.v1", "test-system/get-profile.v1",
   "system/complex-response.v1", "system/none.v1"}
HttpCalled == {"test-system/current-time.v1", "system/none.v1"}

Unhandled == Reply("unhandled", NoVal, NoErr)

ServeHttp(p, verb, decodes) ==
  /\ Idle /\ rxerr = NoErr
  /\ HasParams(p) \/ decodes
  /\ LET slots == <<Slot(Val(TypeHttpRequest, 1, <<verb>>)),
                    Slot(Val(TypeHttpResponseWriter, 1, <<>>)),
                    Slot(RpcMeta(1, p, verb, RpcSourceHttp))>>
         made == NewContextWith(1, "rpc", slots)
         S0 == [State EXCEPT !.ctxs = <<>>, !.nvals = 0,
                             !.request = [Request(RpcSourceHttp, "-1") EXCEPT
                                            !.verb = verb, !.path = p]]
     IN IF p \notin Endpoints
          THEN Becomes([S0 EXCEPT !.reply = Unhandled])
        ELSE IF ~decodes
          THEN Becomes([S0 EXCEPT !.reply = Respond(RpcSourceHttp,
                                                    NewRpcErrorResponse(Null, ErrParse))])
        ELSE Becomes(Enter([S0 EXCEPT !.ctxs = <<made.ctx>>, !.reply = NoReply], 1, p))

InitHttp ==
  /\ ctxs = <<>>
  /\ stack = <<>>
  /\ nvals = 0
  /\ budget = MaxInserts
  /\ request = NoRequest
  /\ reply = NoReply
  /\ logged = <<>>
  /\ ended = NoEnd
  /\ rxerr = NoErr
  /\ public = NewPublic
  /\ client = NewAuthClientMock
  /\ callers = NoCallers
  /\ InitUnit

NextHttp ==
  \/ \E p \in HttpPaths, verb \in HttpVerbs, decodes \in BOOLEAN : ServeHttp(p, verb, decodes)
  \/ \E ok \in BOOLEAN : WireParams(ok)
  \/ WireRequire
  \/ WireCall
  \/ \E m \in HttpCalled : BodyCallMethod(m, TRUE)
  \/ \E out \in Outcomes : BodyReturn(out)
  \/ \E e \in HandlerErrors : BodyReturnError(e)
  \/ \E dep \in Providers : ProvideRequire(dep)
  \/ ProvideReturn
  \/ ProvidePanic

SpecHttp == InitHttp /\ [][NextHttp]_vars

(***************************************************************************)
(* Public.AccountUuid, called by goroutines on the one Public that the     *)
(* Context 1 holds and that CallMethod hands on to its forks.  The         *)
(* Context 1 is the Context of a test, or the Context of an impersonation. *)
(***************************************************************************)
ThePublic == Val(TypePublic, 1, <<>>)

PublicAccounts == Accounts \cup Guests
PublicTraces == {<<>>, <<"accLimited">>}
PublicMethod == "system/set.v1"

Holds(c) == GetValue(ctxs[c], TypePublic).val = ThePublic

\* The Context in which Require(TypePublic) has stored the Public.
PublicContext(uuid, trace) ==
  NewContextWith(1, IF trace = <<>> THEN "test" ELSE "impersonate",
                 <<Slot(Account(uuid))>>
                 \o (IF trace = <<>> THEN <<>> ELSE <<Slot(Val(TypeImpersonated, 1, trace))>>)
                 \o <<Slot(ThePublic)>>).ctx

\* An account logs in.
Authenticated(uuid) ==
  /\ uuid \notin client.authenticated
  /\ client' = [client EXCEPT !.authenticated = @ \cup {uuid}]
  /\ UNCHANGED <<ctxs, stack, nvals, budget, request, reply, logged, ended, rxerr, public, callers, unit>>

\* CallMethod forks the Context c for a call of PublicMethod.
PublicFork(c) ==
  /\ Len(ctxs) < MaxCtx
  /\ LET id == Len(ctxs) + 1
         slots == CopyShareable(ctxs[c].values)
                  \o <<Slot(RpcMeta(id, PublicMethod, RpcHttpMethodPost, RpcSourceInternal))>>
     IN ctxs' = Append(ctxs, NewContextWith(id, "internal", slots).ctx)
  /\ UNCHANGED <<stack, nvals, budget, request, reply, logged, ended, rxerr, public, client, callers, unit>>

\* Require(TypePrivate) on the Context c, which does not have the slot yet:
\* the slot of a Private that NewPrivate refuses stays in the list, invalid.
PublicRequirePrivate(c) ==
  /\ ~ctxs[c].finalized
  /\ ~HasType(ctxs[c].values, TypePrivate)
  /\ LET made == NewPrivate(ctxs[c])
         slot == IF made.panic
                   THEN valueItem(TypePrivate, NoVal, FALSE)
                   ELSE valueItem(TypePrivate, Val(TypePrivate, c, made.d), TRUE)
     IN ctxs' = [ctxs EXCEPT ![c].values = Append(@, slot)]
  /\ UNCHANGED <<stack, nvals, budget, request, reply, logged, ended, rxerr, public, client, callers, unit>>

LockAnyway(p) == TRUE

\* mux.Lock returns once nobody holds the mutex.
CanLock(p) == p.mux = Nobody

\* The goroutine g calls AccountUuid(ctx) with a Context that holds the
\* Public, and arrives at mux.Lock.
AccountUuidCall(g, c) ==
  /\ callers[g].pc \in {"idle", "done"}
  /\ nvals < budget
  /\ Holds(c)
  /\ nvals' = nvals + 1
  /\ callers' = [callers EXCEPT ![g] =
                   Caller("lock", c, public.mux # Nobody, Answer("", NoErr))]
  /\ UNCHANGED <<ctxs, stack, budget, request, reply, logged, ended, rxerr, public, client, unit>>

\* mux.Lock and the test of checked; where checked is set the mutex is
\* unlocked at once.
AccountUuidLock(g) ==
  /\ callers[g].pc = "lock"
  /\ CanLock(public)
  /\ IF public.checked
       THEN /\ callers' = [callers EXCEPT ![g].pc = "cached"]
            /\ UNCHANGED public
       ELSE /\ callers' = [callers EXCEPT ![g].pc = "resolve"]
            /\ public' = [public EXCEPT !.mux = g]
  /\ UNCHANGED <<ctxs, stack, nvals, budget, request, reply, logged, ended, rxerr, client, unit>>

\* The return of the fields kept: (nil, err) or (account uuid, nil).
AccountUuidCached(g) ==
  /\ callers[g].pc = "cached"
  /\ callers' = [callers EXCEPT ![g].pc = "done",
                                ![g].ret = IF public.accountUuid = ""
                                             THEN Answer("", public.err)
                                             ELSE Answer(public.accountUuid, NoErr)]
  /\ UNCHANGED <<ctxs, stack, nvals, budget, request, reply, logged, ended, rxerr, public, client, unit>>

\* ctx.GetValue(TypePrivate): the account of a Private is kept and returned.
AccountUuidPrivate(g) ==
  /\ callers[g].pc = "resolve"
  /\ LET private == GetValue(ctxs[callers[g].ctx], TypePrivate)
     IN IF private.err = NoErr
          THEN /\ public' = [public EXCEPT
                               !.accountUuid = private.val.d[1],
                               !.err = NoErr,
                               !.resolved = Append(@, Answer(private.val.d[1], NoErr))]
               /\ callers' = [callers EXCEPT ![g].pc = "defer",
                                             ![g].ret = Answer(private.val.d[1], NoErr)]
          ELSE /\ callers' = [callers EXCEPT ![g].pc = "client"]
               /\ UNCHANGED public
  /\ UNCHANGED <<ctxs, stack, nvals, budget, request, reply, logged, ended, rxerr, client, unit>>

\* client.IsAuthenticated(ctx): the answer is kept and returned.
AccountUuidClient(g) ==
  /\ callers[g].pc = "client"
  /\ LET resp == IsAuthenticated(ctxs[callers[g].ctx], client.authenticated)
     IN /\ client' = [client EXCEPT !.calls = @ + 1]
        /\ public' = [public EXCEPT !.accountUuid = resp.uuid,
                                    !.err = resp.err,
                                    !.resolved = Append(@, Answer(resp.uuid, resp.err))]
        /\ callers' = [callers EXCEPT ![g].pc = "defer",
                                      ![g].ret = Answer(resp.uuid, resp.err)]
  /\ UNCHANGED <<ctxs, stack, nvals, budget, request, reply, logged, ended, rxerr, unit>>

\* The deferred function: checked is set and the mutex unlocked.
AccountUuidDeferred(g) ==
  /\ callers[g].pc = "defer"
  /\ public' = [public EXCEPT !.checked = TRUE, !.mux = Nobody]
  /\ callers' = [callers EXCEPT ![g].pc = "done"]
  /\ UNCHANGED <<ctxs, stack, nvals, budget, request, reply, logged, ended, rxerr, client, unit>>

InitPublic ==
  /\ \E uuid \in PublicAccounts, trace \in PublicTraces :
       ctxs = <<PublicContext(uuid, trace)>>
  /\ stack = <<>>
  /\ nvals = 0
  /\ budget = MaxCalls
  /\ request = NoRequest
  /\ reply = NoReply
  /\ logged = <<>>
  /\ ended = NoEnd
  /\ rxerr = NoErr
  /\ public = NewPublic
  /\ client = NewAuthClientMock
  /\ callers = NoCallers
  /\ InitUnit

NextPublic ==
  \/ \E uuid \in Guests : Authenticated(uuid)
  \/ \E c \in DOMAIN ctxs : PublicFork(c)
  \/ \E c \in DOMAIN ctxs : PublicRequirePrivate(c)
  \/ \E g \in Callers, c \in DOMAIN ctxs : AccountUuidCall(g, c)
  \/ \E g \in Callers : AccountUuidLock(g)
  \/ \E g \in Callers : AccountUuidCached(g)
  \/ \E g \in Callers : AccountUuidPrivate(g)
  \/ \E g \in Callers : AccountUuidClient(g)
  \/ \E g \in Callers : AccountUuidDeferred(g)

SpecPublic == InitPublic /\ [][NextPublic]_vars

(***************************************************************************)
(* Properties of one Context.                                              *)
(***************************************************************************)
Range(s) == {s[i] : i \in DOMAIN s}

\* The values of S, latest insertion first.
RECURSIVE LatestFirst(_)
LatestFirst(S) ==
  IF S = {}
    THEN <<>>
    ELSE LET m == CHOOSE v \in S : \A w \in S : w.n <= v.n
         IN <<m>> \o LatestFirst(S \ {m})

FinalizeableIn(values) ==
  {values[i].val : i \in {j \in DOMAIN values : IsFinalizeable(values[j].val)}}

\* C1: the finalizers of a Context are called only by the step that first
\* finalizes it, and that step calls the finalizer of every Finalizeable
\* value in the slot list exactly once, latest inserted slot first; no later
\* Finalize and no other operation calls a finalizer.
FinalizeOnceInReverseOrder ==
  [][\A c \in DOMAIN ctxs' :
       IF c \in DOMAIN ctxs
         THEN IF ~ctxs[c].finalized /\ ctxs'[c].finalized
                THEN ctxs'[c].finlog = LatestFirst(FinalizeableIn(ctxs[c].values))
                ELSE ctxs'[c].finlog = ctxs[c].finlog
         ELSE ctxs'[c].finlog = <<>>]_vars

\* Finalize has returned on a Context after calling two finalizers, one of
\* them of a value inserted after an earlier slot had been invalidated.
FinalizedTwoValues ==
  \E c \in DOMAIN ctxs :
    /\ ctxs[c].finalized
    /\ Len(ctxs[c].finlog) = 2
    /\ \E i \in 1..2 : ctxs[c].finlog[i].n > 3
    /\ Top.last.op = "finalize" /\ Top.last.ctx = c
    /\ Top.last.err = ErrUnauthorized

\* The types under construction, from the construction of inst to the
\* running one, when the running provider requires inst again.
OnCycle(inst) ==
  LET first == CHOOSE i \in DOMAIN stack :
                 stack[i].kind = "provide" /\ stack[i].name = inst
                 /\ stack[i].ctx = Top.ctx
  IN {stack[i].name : i \in first..Len(stack)}

CycleDetected(inst) ==
  /\ Len(stack) > 0 /\ Top.kind = "provide"
  /\ \E i \in DOMAIN stack :
       stack[i].kind = "provide" /\ stack[i].name = inst /\ stack[i].ctx = Top.ctx
  /\ ProvideRequire(inst)

\* C5: when a provider requires a type whose construction is in progress,
\* the require fails (every construction in progress is abandoned and the
\* caller gets the recursion-loop error) and the error lists every type on
\* the cycle.
CycleDiagnosticListsCycle ==
  [][\A inst \in Providers :
       CycleDetected(inst) =>
         LET l == stack'[Len(stack')].last
         IN /\ stack'[Len(stack')].kind # "provide"
            /\ l.panic /\ l.err.msg = "recursion loop while resolving"
            /\ OnCycle(inst) \subseteq ({l.err.inst} \cup Range(l.err.chain))]_vars

UniqueTypes(values) ==
  \A i, j \in DOMAIN values : i # j => values[i].rt # values[j].rt

\* C9: every Context holds at most one slot per type, and a store for a type
\* that has a slot panics and leaves the list as it was.
OneSlotPerType ==
  [][/\ \A c \in DOMAIN ctxs' : UniqueTypes(ctxs'[c].values)
     /\ \A c \in DOMAIN ctxs, rt \in StoredTypes :
          (CtxStoreValue(c, rt) /\ HasType(ctxs[c].values, rt)) =>
            /\ stack'[Len(stack')].last.panic
            /\ ctxs'[c].values = ctxs[c].values]_vars

\* C10: on a finalized Context every require, get, store and invalidate
\* fails with the already-finalized error, and the slot list stays empty.
FinalizedContextIsClosed ==
  [][\A c \in DOMAIN ctxs :
       ctxs[c].finalized =>
         /\ ctxs'[c].values = <<>>
         /\ LET l == stack'[Len(stack')].last
            IN (l # Top.last /\ l.ctx = c
                /\ l.op \in {"require", "get", "store", "invalidate"})
                 => l.err = ErrFinalized]_vars

(***************************************************************************)
(* Properties of calls.  The frame i is that of a method called through    *)
(* Context.CallMethod, or of a function run by Impersonate, when it lies   *)
(* on the frame of the body that called.                                   *)
(***************************************************************************)
CalledFrames ==
  {i \in 2..Len(stack) : stack[i].kind \in {"wire", "body"} /\ stack[i].name \in Endpoints}

ImpersonationFrames ==
  {i \in 2..Len(stack) : stack[i].kind = "body" /\ stack[i].name = "impersonate"}

Slots(values) == Range(values)

\* The objects two slot lists have in common.
Common(callee, caller) ==
  {s \in Slots(callee) : s.val # NoVal /\ \E u \in Slots(caller) : u.val = s.val}

\* C2: when CallMethod enters the called method, the slots of the callee's
\* Context are its own Context slot, the caller's valid Shareable slots with
\* the same values, and an RpcMeta of source internal that is not the
\* caller's; and as long as the called method runs, every object the two
\* Contexts have in common is in a valid Shareable slot of the caller.
CalleeSeesShareableOnly ==
  [][/\ \A m \in Methods :
          (Len(stack') > Len(stack) /\ BodyCallMethod(m, TRUE)) =>
            LET id == stack'[Len(stack')].ctx
                caller == ctxs[Top.ctx].values
                callee == ctxs'[id].values
                own == {s \in Slots(callee) : s.rt = TypeContext}
                meta == {s \in Slots(callee) : s.rt = TypeRpcMeta}
            IN /\ id # Top.ctx
               /\ own = {valueItem(TypeContext, CtxVal(id), TRUE)}
               /\ Cardinality(meta) = 1
               /\ \A s \in meta : /\ s.valid /\ s.val.d[3] = RpcSourceInternal
                                  /\ s \notin Slots(caller)
               /\ Slots(callee) \ (own \cup meta)
                    = {s \in Slots(caller) : s.valid /\ s.val.t \in Shareable}
     /\ \A i \in {j \in 2..Len(stack') : stack'[j].kind \in {"wire", "body"}
                                         /\ stack'[j].name \in Endpoints} :
          \A s \in Common(ctxs'[stack'[i].ctx].values, ctxs'[stack'[i - 1].ctx].values) :
            s.valid /\ s.val.t \in Shareable
                    /\ s \in Slots(ctxs'[stack'[i - 1].ctx].values)]_vars

\* A called method runs with the caller's B, a Shareable value, while the
\* caller also holds A, which is not Shareable, and its Context has a slot
\* more than it was handed.
CalleeRunsWithSharedValue ==
  /\ CalledFrames # {}
  /\ LET i == CHOOSE j \in CalledFrames : \A k \in CalledFrames : k <= j
         caller == ctxs[stack[i - 1].ctx].values
         callee == ctxs[stack[i].ctx].values
     IN /\ stack[i].kind = "body"
        /\ \E s \in Slots(caller) : s.rt = "A" /\ s.valid
        /\ \E s \in Slots(caller) : s.rt = "B" /\ s.valid /\ s \in Slots(callee)
        /\ \E s \in Slots(caller) : s.rt = typeTestAccount /\ s \in Slots(callee)

\* The account a Context acts for: the impersonated one, else the account
\* stored in it.
EffectiveAccount(cx) ==
  IF GetValue(cx, TypeImpersonated).val # NoVal
    THEN GetValue(cx, TypeImpersonated).val.d[Len(GetValue(cx, TypeImpersonated).val.d)]
  ELSE IF GetValue(cx, typeTestAccount).val # NoVal
    THEN GetValue(cx, typeTestAccount).val.d[1]
  ELSE ""

Allowed(uuid, m) ==
  uuid \in fullAccess \/ <<uuid, m, RpcHttpMethodPost>> \in methodAccess

\* The account stored in the Context acts for itself, or for an account
\* that every link of the impersonation chain is permitted to reach.
ImpersonationPermitted(cx) ==
  LET chain == GetValue(cx, typeTestAccount).val.d
               \o GetValue(cx, TypeImpersonated).val.d
  IN \A i \in 1..(Len(chain) - 1) : <<chain[i], chain[i + 1]>> \in canImpersonate

TakesPrivate(m) == \E i \in DOMAIN PlanOf(m) : PlanOf(m)[i] = TypePrivate

EngineOrigins == {"rpc", "regex", "internal"}

Running(c) ==
  \E i \in DOMAIN stack : stack[i].ctx = c /\ stack[i].kind \in {"wire", "body"}

\* C6: a Context made by processRpcMessage, by the regexp handler or by
\* CallMethod is not finalized as long as its call runs and is finalized
\* when the call is over, however it ended; and it is finalized in the
\* step that ends the call, not before and not again.
EngineContextsFinalized ==
  [][/\ \A c \in DOMAIN ctxs' :
          ctxs'[c].origin \in EngineOrigins =>
            (ctxs'[c].finalized <=>
               ~\E i \in DOMAIN stack' :
                   stack'[i].ctx = c /\ stack'[i].kind \in {"wire", "body"})
     /\ \A c \in DOMAIN ctxs :
          (c \in DOMAIN ctxs' /\ ctxs[c].origin \in EngineOrigins
           /\ ctxs'[c].origin = ctxs[c].origin /\ ctxs[c].finalized /\ Len(stack) > 0) =>
            ctxs'[c] = ctxs[c]]_vars

\* The regexp handler has called a method, which has returned, and has
\* then panicked: the request is over with an internal error and both
\* Contexts are finalized.
PanickedRequestFinalized ==
  /\ stack = <<>>
  /\ reply.kind = "regex" /\ reply.err.code = ErrInternal.code
  /\ Len(ctxs) = 2
  /\ ctxs[1].origin = "regex" /\ ctxs[1].finalized
  /\ ctxs[2].origin = "internal" /\ ctxs[2].finalized

\* C8: the slot list of a caller's Context is, as long as the method it
\* called through CallMethod runs and when the call has returned, the one
\* it was when the call was made.
CallerSlotsUnchanged ==
  /\ \A i \in CalledFrames : ctxs[stack[i - 1].ctx].values = stack[i - 1].snap
  /\ (Len(stack) > 0 /\ Top.kind = "body" /\ Top.last.op = "call") =>
       ctxs[Top.ctx].values = Top.snap

\* A call has returned with a panic of the called method, which had
\* invalidated the B it shared with the caller and provided its own.
CalleeChangedOwnSlots ==
  /\ Len(stack) > 0 /\ Top.kind = "body" /\ Top.last.op = "call"
  /\ Top.last.err.wrapped
  /\ \E s \in Slots(ctxs[Top.ctx].values) : s.rt = "B" /\ s.valid
  /\ \E c \in DOMAIN ctxs :
       /\ ctxs[c].origin = "internal" /\ ctxs[c].finalized
       /\ Len(ctxs[c].finlog) = 1
       /\ \A s \in Slots(ctxs[Top.ctx].values) : s.val # ctxs[c].finlog[1]


(***************************************************************************)
(* Properties of Public.AccountUuid.                                       *)
(***************************************************************************)
Returned == {g \in Callers : callers[g].pc = "done"}

\* C7: however many goroutines call AccountUuid on one Public, one after
\* the other or at the same time, with the Context the Public was stored in
\* or with a fork that shares it, the AuthClient answers at most one
\* is-authenticated call, the account is resolved at most once, and every
\* call that has returned has returned what that resolution found.
OneResolutionPerPublic ==
  /\ client.calls <= 1
  /\ Len(public.resolved) <= 1
  /\ \A g \in Returned :
       /\ Len(public.resolved) = 1
       /\ callers[g].ret = public.resolved[1]

\* Two goroutines have returned from calls made with different Contexts,
\* one of them having found the mutex held, after one is-authenticated call
\* whose answer would be another one by now.
SharedPublicResolvedOnce ==
  \E g, h \in Returned :
    /\ g # h
    /\ callers[g].ctx # callers[h].ctx
    /\ callers[h].waited
    /\ client.calls = 1
    /\ IsAuthenticated(ctxs[callers[h].ctx], client.authenticated) # public.resolved[1]

(***************************************************************************)
(* Properties of Clone, Require and GetValue, and Finalize.                *)
(***************************************************************************)
\* C11: the Context that Clone has returned is not the Context it was called
\* on, and its slots are its own Context slot and the slots of the source
\* that were valid when Clone was called, none of them under construction.
CloneReturnsCopy ==
  (Len(stack) > 0 /\ Top.last.op = "clone") =>
    LET source == ctxs[Top.last.ctx].values
        cloned == ctxs[Top.last.val.n].values
    IN /\ Top.last.val.n # Top.last.ctx
       /\ \A i \in DOMAIN source : source[i].valid => source[i] \in Range(cloned)
       /\ \A i \in DOMAIN cloned : cloned[i].valid

SlotsOf(values, rt) == {i \in DOMAIN values : values[i].rt = rt}
Constructing(s, c, rt) ==
  \E i \in DOMAIN s : s[i].kind = "provide" /\ s[i].ctx = c /\ s[i].name = rt

\* C12: in a Context the provider of a type is invoked only by a Require
\* that finds no slot of the type, and the slot a Require appends stays until
\* the type is invalidated or the Context finalized; a Require on a Context
\* not finalized that finds the valid slot returns its value and changes
\* nothing; GetValue returns
\* the value of the valid slot, or an error, and invokes no provider.
ProvidedOncePerSlot ==
  [][\A c \in DOMAIN ctxs, rt \in RequiredTypes \cup StoredTypes :
       /\ (~Constructing(stack, c, rt) /\ Constructing(stack', c, rt)) =>
            /\ SlotsOf(ctxs[c].values, rt) = {}
            /\ Cardinality(SlotsOf(ctxs'[c].values, rt)) = 1
       /\ (SlotsOf(ctxs[c].values, rt) # {} /\ SlotsOf(ctxs'[c].values, rt) = {}) =>
            \/ \E rts \in InvalidatedSets : rt \in rts /\ CtxInvalidate(c, rts)
            \/ ~ctxs[c].finalized /\ ctxs'[c].finalized
       /\ (/\ Require(c, rt) /\ ~ctxs[c].finalized
           /\ \E i \in SlotsOf(ctxs[c].values, rt) : ctxs[c].values[i].valid) =>
            /\ ctxs' = ctxs
            /\ Len(stack') = Len(stack)
            /\ \E i \in SlotsOf(ctxs[c].values, rt) :
                 stack'[Len(stack')].last =
                   Last("require", c, rt, ctxs[c].values[i].val, NoErr, FALSE)
       /\ CtxGetValue(c, rt) =>
            /\ ctxs' = ctxs /\ nvals' = nvals
            /\ Len(stack') = Len(stack)
            /\ stack'[Len(stack')].last.val \in
                 {NoVal} \cup {ctxs[c].values[i].val : i \in SlotsOf(ctxs[c].values, rt)}]_vars

\* A Require has returned the value that an earlier Require of the type
\* constructed in this Context, which holds two provided values or more,
\* other objects having been made since.
RequiredAgain ==
  /\ Len(stack) = 1 /\ Top.last.op = "require" /\ ~Top.last.panic
  /\ Top.last.val.n < nvals - 1
  /\ Top.last.val.t \in Providers
  /\ Cardinality({i \in DOMAIN ctxs[Top.last.ctx].values :
                    ctxs[Top.last.ctx].values[i].valid
                    /\ ctxs[Top.last.ctx].values[i].rt \in Providers}) >= 2

\* The errors a Finalize call collects: the inbound error, if any, and the
\* error of every finalizer called that fails.
Collected(inbound, called, bad) ==
  (IF inbound = NoErr THEN <<>> ELSE <<inbound>>)
  \o [i \in 1..Len(SelectSeq(called, LAMBDA v : v.t \in bad)) |->
       ErrFinalizer(SelectSeq(called, LAMBDA v : v.t \in bad)[i].t)]

\* C13: Finalize of a Context not yet finalized returns nil when it has
\* collected no error, the inbound error when that is the only one, and
\* otherwise an internal error of code -32603 whose Details are the errors
\* collected, each as an Error.
FinalizeReportsCollectedErrors ==
  [][\A c \in DOMAIN ctxs, inbound \in Inbound, bad \in BadFinalizers :
       (CtxFinalize(c, inbound, bad) /\ ~ctxs[c].finalized) =>
         LET collected == Collected(inbound, ctxs'[c].finlog, bad)
             returned == stack'[Len(stack')].last.err
         IN IF collected = <<>> THEN returned = NoErr
            ELSE IF collected = <<inbound>> THEN returned = inbound
            ELSE /\ returned.code = -32603
                 /\ returned.details = [i \in DOMAIN collected |-> RpcError(collected[i])]]_vars

(***************************************************************************)
(* Properties of impersonation and of the AuthClient's refusals.           *)
(***************************************************************************)
\* The account of the impersonation scope a frame runs: the account its
\* Impersonated reports.
ScopeAccount(f) ==
  LET d == GetValue(ctxs[f.ctx], TypeImpersonated).val.d IN d[Len(d)]

\* The accounts of the impersonation scopes entered up to the frame i and
\* not left, the outermost first.
Chain(i) ==
  LET scopes == SelectSeq(SubSeq(stack, 1, i),
                          LAMBDA f : f.kind = "body" /\ f.name = "impersonate")
  IN [k \in DOMAIN scopes |-> ScopeAccount(scopes[k])]

\* C14: the Impersonated of the Context a function given to Impersonate
\* runs with traces the accounts of the scopes entered and not left, the
\* outermost first and its own account last.
TraceListsEnclosingScopes ==
  \A i \in DOMAIN stack :
    (stack[i].kind = "body" /\ stack[i].name = "impersonate") =>
      GetValue(ctxs[stack[i].ctx], TypeImpersonated).val.d = Chain(i)

\* C15: a call of a method that takes a Private, made for an account in an
\* impersonation scope whose chain the AuthClient refuses, returns the
\* unauthorized Error of code -32001; and the body of such a method never
\* runs for a refused chain.
RefusedHopReturnsUnauthorized ==
  /\ (/\ Len(stack) > 0 /\ Top.kind = "body" /\ Top.last.op = "call"
      /\ Top.last.arg \in Endpoints /\ TakesPrivate(Top.last.arg)
      /\ GetValue(ctxs[Top.ctx], typeTestAccount).val # NoVal
      /\ GetValue(ctxs[Top.ctx], TypeImpersonated).val # NoVal
      /\ ~ImpersonationPermitted(ctxs[Top.ctx]))
       => /\ ~Top.last.panic
          /\ Top.last.err = ErrUnauthorized
  /\ \A i \in DOMAIN stack :
       (/\ stack[i].kind = "body" /\ stack[i].name \in Endpoints
        /\ TakesPrivate(stack[i].name)
        /\ GetValue(ctxs[stack[i].ctx], typeTestAccount).val # NoVal)
         => ImpersonationPermitted(ctxs[stack[i].ctx])

\* C16: an Impersonate that has returned to code whose Context holds no
\* account the AuthClient's IsAuthenticated names has returned an error.
ImpersonateRequiresAuthentication ==
  (/\ Len(stack) > 0 /\ Top.kind = "body" /\ Top.last.op = "impersonate"
   /\ IsAuthenticated(ctxs[Top.ctx], client.authenticated).uuid = "")
    => Top.last.err # NoErr

(***************************************************************************)
(* Properties of the answers of the transports and of the log.             *)
(***************************************************************************)
MethodOrigins == {"rpc", "internal"}

OneElementPerNonNotification ==
  (stack = <<>> /\ reply.kind = "rpc"
   /\ request.source \in {RpcSourceHttpRpc, RpcSourceWs}) =>
    Len(reply.resp) = (IF request.id = Null THEN 0 ELSE 1)

\* C20: when the per-method HTTP endpoint has dispatched a call that
\* succeeded, it has answered status 200 with the result as the body if the
\* result is not null, and status 204 if it is null.
SuccessStatusByResult ==
  (stack = <<>> /\ reply.kind = "rpc" /\ request.source = RpcSourceHttp
   /\ Len(reply.resp) = 1 /\ reply.resp[1].type = "result") =>
    IF reply.resp[1].result # NoVal
      THEN reply.status = 200 /\ reply.body = <<reply.resp[1].result>>
      ELSE reply.status = 204

(***************************************************************************)
(* Properties of the per-method HTTP endpoint (SpecHttp).                  *)
(***************************************************************************)
\* The verb the per-method endpoint is to accept for the method m.
AcceptedVerb(m) == IF HasParams(m) THEN "POST" ELSE "GET"

\* The handler of the requested method is running, or has called out.
HandlerInvoked ==
  \E i \in DOMAIN stack :
    stack[i].kind = "body" /\ stack[i].ctx = 1 /\ stack[i].name = request.path

\* C21: on the per-method HTTP endpoint the handler of a method runs only
\* for a request with the verb of the method (GET for a method without
\* parameters, POST for one with parameters), and a request with any other
\* verb is answered with the method-not-allowed error and the status 405.
VerbEnforcedPerMethod ==
  (request.path \in Endpoints /\ request.verb # AcceptedVerb(request.path)) =>
     /\ ~HandlerInvoked
     /\ reply # NoReply =>
          (reply.status = 405 /\ reply.err = ErrServerMethodNotAllowed)

\* An error reply of the per-method HTTP endpoint.
HttpErrorReply == request.source = RpcSourceHttp /\ reply.kind = "rpc" /\ reply.err # NoErr

\* The status that goes with the code of an Error.
StatusByCode(code) ==
  CASE code = -32000 -> 405
    [] code = -32700 -> 400
    [] code = -32602 -> 400
    [] code = -32001 -> 403
    [] code = -32002 -> 403
    [] code = -32601 -> 404
    [] code = -32003 -> 429
    [] OTHER -> 500

Patterns == {"^/files/(.*)$", "^/files/img/(.*)$", "^/health$"}
Paths == {"/files/a", "/files/img/a", "/health", "/other"}
Handlers == {"serveFiles", "serveImages"}

\* regexp.FindStringSubmatch(path) finds a match.
Matches(pattern, path) ==
  CASE pattern = "^/files/(.*)$" -> path \in {"/files/a", "/files/img/a"}
    [] pattern = "^/files/img/(.*)$" -> path = "/files/img/a"
    [] pattern = "^/health$" -> path = "/health"
    [] OTHER -> FALSE

NewHttpRegexpHandler == [patterns |-> <<>>]

Registered(p) == \E i \in DOMAIN subject.patterns : subject.patterns[i].pattern = p

\* RegisterRegexp(pattern, handler), for a handler whose arguments are
\* supported.
RegisterRegexp(pattern, handler) ==
  /\ IF Registered(pattern)
       THEN /\ outcome' = Result("register", TRUE, <<>>)
            /\ UNCHANGED subject
       ELSE /\ subject' = [subject EXCEPT
                             !.patterns = Append(@, [pattern |-> pattern, handler |-> handler])]
            /\ outcome' = Result("register", FALSE, <<>>)
  /\ UNCHANGED core

\* HttpRegexpHandler.Handle for a request of the path: the range over the
\* map comes to the matching entries in any order, and the first it comes
\* to is served.
Handle(path) ==
  /\ LET matching == {i \in DOMAIN subject.patterns :
                         Matches(subject.patterns[i].pattern, path)}
     IN IF matching = {}
          THEN outcome' = Result("handle", FALSE, [path |-> path, handled |-> FALSE,
                                                  invoked |-> <<>>])
          ELSE \E i \in matching :
                 outcome' = Result("handle", FALSE,
                                  [path |-> path, handled |-> TRUE,
                                   invoked |-> <<subject.patterns[i].handler>>])
  /\ UNCHANGED <<core, subject>>

\* The dispatch at rest, while one object is looked at.
InitIdle ==
  /\ ctxs = <<>>
  /\ stack = <<>>
  /\ nvals = 0
  /\ budget = MaxCallInserts
  /\ request = NoRequest
  /\ reply = NoReply
  /\ logged = <<>>
  /\ ended = NoEnd
  /\ rxerr = NoErr
  /\ public = NewPublic
  /\ client = NewAuthClientMock
  /\ callers = NoCallers

InitRouter ==
  /\ InitIdle
  /\ subject = NewHttpRegexpHandler
  /\ outcome = NoResult

NextRouter ==
  \/ \E pattern \in Patterns, handler \in Handlers : RegisterRegexp(pattern, handler)
  \/ \E path \in Paths : Handle(path)

SpecRouter == InitRouter /\ [][NextRouter]_vars

\* The handler registered first among the patterns that match the path.
FirstMatch(path) ==
  LET matching == {i \in DOMAIN subject.patterns :
                     Matches(subject.patterns[i].pattern, path)}
  IN subject.patterns[CHOOSE i \in matching : \A j \in matching : i <= j].handler

\* C23: a request whose path matches patterns of the regexp router is
\* served by exactly one handler, and that is the handler of the pattern
\* registered first among the patterns that match.
FirstRegisteredPatternWins ==
  (outcome.op = "handle" /\ outcome.val.handled) =>
     outcome.val.invoked = <<FirstMatch(outcome.val.path)>>

(***************************************************************************)
(* Properties of the handler of a regexp route (Spec).                     *)
(***************************************************************************)
\* The frame that recovers a panic of the running frame is the wiring of
\* the regexp handler.
RegexpWiring ==
  LET u == Unwind(stack)
  IN /\ Len(stack) > 0 /\ Top.kind = "provide"
     /\ Len(u) > 0 /\ u[Len(u)].kind = "wire" /\ ctxs[u[Len(u)].ctx].origin = "regex"

\* The error response for the panic value e: e itself if it is an Error,
\* otherwise the internal error with the encoded message of e, under the
\* status that goes with its code.
PanicResponse(e) ==
  LET r == IF e.code # 0 THEN e
           ELSE Err(-32603, "Internal error", "aes(" \o e.msg \o ")", <<>>)
  IN [kind |-> "regex", val |-> NoVal, err |-> r, resp |-> <<>>,
      status |-> StatusByCode(r.code), body |-> <<r>>]

FactoryTypes == {"DB", "Time", "Logger"}
ProviderFuncs == {"ProvideDB", "OpenDB", "ProvideTime", "SystemTime", "ProvideLogger"}
ProviderObjects == {"Provider", "Clock", "Logging"}

\* The type a provider function returns.
Out(fn) ==
  CASE fn \in {"ProvideDB", "OpenDB", "NewDB"} -> "DB"
    [] fn \in {"ProvideTime", "SystemTime", "NewTime"} -> "Time"
    [] OTHER -> "Logger"

\* The methods of a receiver object whose names start with New, in the
\* order reflect lists them.
NewMethods(provider) ==
  CASE provider = "Provider" -> <<"NewDB", "NewTime">>
    [] provider = "Clock" -> <<"NewTime">>
    [] OTHER -> <<"NewLogger">>

boundMethod(this, method) == [this |-> this, method |-> method]
Unbound == boundMethod("", "")

NewFactory == [providers |-> [t \in FactoryTypes |-> Unbound]]

\* RegisterProviderFunc(fn).
RegisterProviderFunc(fn) ==
  /\ subject' = [subject EXCEPT !.providers[Out(fn)] = boundMethod("", fn)]
  /\ outcome' = Result("RegisterProviderFunc", FALSE, <<>>)
  /\ UNCHANGED core

\* The loop of RegisterProvider from the method i on: the map it leaves,
\* and whether it panicked.
RECURSIVE RegisterFrom(_, _, _)
RegisterFrom(providers, provider, i) ==
  LET ms == NewMethods(provider) IN
  IF i > Len(ms) THEN [providers |-> providers, panic |-> FALSE]
  ELSE IF providers[Out(ms[i])] # Unbound THEN [providers |-> providers, panic |-> TRUE]
  ELSE RegisterFrom([providers EXCEPT ![Out(ms[i])] = boundMethod(provider, ms[i])],
                    provider, i + 1)

\* RegisterProvider(provider).
RegisterProvider(provider) ==
  /\ LET r == RegisterFrom(subject.providers, provider, 1)
     IN /\ subject' = [subject EXCEPT !.providers = r.providers]
        /\ outcome' = Result("RegisterProvider", r.panic, <<>>)
  /\ UNCHANGED core

InitFactory ==
  /\ InitIdle
  /\ subject = NewFactory
  /\ outcome = NoResult

NextFactory ==
  \/ \E fn \in ProviderFuncs : RegisterProviderFunc(fn)
  \/ \E provider \in ProviderObjects : RegisterProvider(provider)

SpecFactory == InitFactory /\ [][NextFactory]_vars

\* The types that have a provider.
Bound == {t \in FactoryTypes : subject.providers[t] # Unbound}

\* C25: registering a provider for a type that has a provider panics and
\* leaves the provider of the type as it was, whether a bare function is
\* registered (RegisterProviderFunc) or a receiver object
\* (RegisterProvider).
DuplicateProviderRefused ==
  [][/\ \A fn \in ProviderFuncs :
          (Out(fn) \in Bound /\ RegisterProviderFunc(fn))
            => /\ outcome'.panic
               /\ subject'.providers[Out(fn)] = subject.providers[Out(fn)]
     /\ \A provider \in ProviderObjects :
          ((\E i \in DOMAIN NewMethods(provider) : Out(NewMethods(provider)[i]) \in Bound)
             /\ RegisterProvider(provider))
            => /\ outcome'.panic
               /\ \A t \in Bound : subject'.providers[t] = subject.providers[t]]_vars

(***************************************************************************)
(* Names of methods.  A string is a sequence of characters.  A uint64 is   *)
(* the sequence of its decimal digits, the least significant first and     *)
(* without zeros at the high end (zero is the empty sequence).             *)
(***************************************************************************)
UpperChars == {"A", "B", "V"}
LowerChars == {"a", "b", "v"}
DigitChars == {"0", "1", "2", "3", "4", "5", "6", "7", "8", "9"}

\* strings.ToLower, on one character.
ToLower(c) ==
  CASE c = "A" -> "a"
    [] c = "B" -> "b"
    [] c = "V" -> "v"
    [] OTHER -> c

DigitVal(c) ==
  CASE c = "0" -> 0 [] c = "1" -> 1 [] c = "2" -> 2 [] c = "3" -> 3 [] c = "4" -> 4
    [] c = "5" -> 5 [] c = "6" -> 6 [] c = "7" -> 7 [] c = "8" -> 8 [] OTHER -> 9

DigitChar(d) ==
  CASE d = 0 -> "0" [] d = 1 -> "1" [] d = 2 -> "2" [] d = 3 -> "3" [] d = 4 -> "4"
    [] d = 5 -> "5" [] d = 6 -> "6" [] d = 7 -> "7" [] d = 8 -> "8" [] OTHER -> "9"

Reverse(s) == [i \in 1..Len(s) |-> s[Len(s) + 1 - i]]

\* The number that the digits ds (the least significant first) stand for:
\* the zeros at the high end are dropped.
RECURSIVE Canonical(_)
Canonical(ds) ==
  IF ds = <<>> \/ ds[Len(ds)] # 0 THEN ds ELSE Canonical(SubSeq(ds, 1, Len(ds) - 1))

\* a > b, for numbers.
Greater(a, b) ==
  \/ Len(a) > Len(b)
  \/ /\ Len(a) = Len(b)
     /\ \E i \in 1..Len(a) : a[i] > b[i] /\ \A j \in (i + 1)..Len(a) : a[j] = b[j]

\* The number written as the decimal numeral text.
NumberOf(text) == Canonical(Reverse([i \in 1..Len(text) |-> DigitVal(text[i])]))

Zero == <<>>
MaxUint64 == NumberOf(<<"1", "8", "4", "4", "6", "7", "4", "4", "0", "7", "3", "7", "0", "9",
                        "5", "5", "1", "6", "1", "5">>)
MaxInt64 == NumberOf(<<"9", "2", "2", "3", "3", "7", "2", "0", "3", "6", "8", "5", "4", "7",
                       "7", "5", "8", "0", "7">>)

\* strconv.FormatUint(version, 10).
FormatUint(n) ==
  IF n = Zero THEN <<"0">> ELSE Reverse([i \in 1..Len(n) |-> DigitChar(n[i])])

AllDigits(text) == text # <<>> /\ \A i \in 1..Len(text) : text[i] \in DigitChars

\* strconv.ParseUint(text, 10, 64): a numeral out of range gives the
\* largest uint64, and an error.
ParseUint(text) ==
  IF ~AllDigits(text) THEN [val |-> Zero, err |-> "syntax"]
  ELSE IF Greater(NumberOf(text), MaxUint64) THEN [val |-> MaxUint64, err |-> "range"]
  ELSE [val |-> NumberOf(text), err |-> ""]

MinInt64Magnitude ==
  NumberOf(<<"9", "2", "2", "3", "3", "7", "2", "0", "3", "6", "8", "5", "4", "7", "7", "5",
             "8", "0", "8">>)

\* strconv.ParseInt(text, 10, 64): neg and val are the sign and the
\* magnitude of the int64.
ParseInt(text) ==
  LET signed == text # <<>> /\ text[1] \in {"+", "-"}
      neg == text # <<>> /\ text[1] = "-"
      digits == IF signed THEN Tail(text) ELSE text
      n == NumberOf(digits)
  IN IF ~AllDigits(digits) THEN [neg |-> FALSE, val |-> Zero, err |-> "syntax"]
     ELSE IF ~neg /\ Greater(n, MaxInt64) THEN [neg |-> FALSE, val |-> MaxInt64, err |-> "range"]
     ELSE IF neg /\ Greater(n, MinInt64Magnitude)
       THEN [neg |-> TRUE, val |-> MinInt64Magnitude, err |-> "range"]
     ELSE [neg |-> neg /\ n # Zero, val |-> n, err |-> ""]

\* regexp.ReplaceAllString(input, "${1}-${2}") for matchFirstCap,
\* ([A-Z])([A-Z][a-z]): the matches are taken from the left and do not
\* overlap.
RECURSIVE ReplaceFirstCap(_)
ReplaceFirstCap(s) ==
  IF s = <<>> THEN <<>>
  ELSE IF Len(s) >= 3 /\ s[1] \in UpperChars /\ s[2] \in UpperChars /\ s[3] \in LowerChars
    THEN <<s[1], "-", s[2], s[3]>> \o ReplaceFirstCap(SubSeq(s, 4, Len(s)))
  ELSE <<s[1]>> \o ReplaceFirstCap(Tail(s))

\* The same for matchAllCap, ([a-z0-9])([A-Z]).
RECURSIVE ReplaceAllCap(_)
ReplaceAllCap(s) ==
  IF s = <<>> THEN <<>>
  ELSE IF Len(s) >= 2 /\ s[1] \in LowerChars \cup DigitChars /\ s[2] \in UpperChars
    THEN <<s[1], "-", s[2]>> \o ReplaceAllCap(SubSeq(s, 3, Len(s)))
  ELSE <<s[1]>> \o ReplaceAllCap(Tail(s))

ToKebabCase(input) ==
  LET output == ReplaceAllCap(ReplaceFirstCap(input))
  IN [i \in 1..Len(output) |-> ToLower(IF output[i] = "_" THEN "-" ELSE output[i])]

\* validIdentifierName, ^[A-Za-z0-9-]+$, matches s.
validIdentifierName(s) ==
  /\ s # <<>>
  /\ \A i \in 1..Len(s) : s[i] \in UpperChars \cup LowerChars \cup DigitChars \cup {"-"}

\* matchMethodName, ^(.+)V([0-9]+)$: the positions of a V that has a
\* character before it and digits only, at least one, after it.  There is
\* at most one.
matchMethodName(method) ==
  {k \in 2..(Len(method) - 1) :
     method[k] = "V" /\ \A j \in (k + 1)..Len(method) : method[j] \in DigitChars}

\* SplitGoMethodName: the error of ParseUint is dropped.
SplitGoMethodName(method) ==
  LET sub == matchMethodName(method)
      k == CHOOSE k \in sub : TRUE
  IN IF sub = {} THEN [method |-> <<>>, version |-> Zero]
     ELSE [method |-> ToKebabCase(SubSeq(method, 1, k - 1)),
           version |-> ParseUint(SubSeq(method, k + 1, Len(method))).val]

GetDefaultMethodName(system, method, version) ==
  system \o <<"/">> \o method \o <<".", "v">> \o FormatUint(version)

\* strings.Split(s, sep) for a separator of one or two characters: the
\* pieces between the occurrences of sep, taken from the left.
RECURSIVE Split(_, _)
Split(s, sep) ==
  LET n == Len(sep)
      at == {i \in 1..(Len(s) - n + 1) : SubSeq(s, i, i + n - 1) = sep}
      i == CHOOSE i \in at : \A j \in at : i <= j
  IN IF at = {} THEN <<s>>
     ELSE <<SubSeq(s, 1, i - 1)>> \o Split(SubSeq(s, i + n, Len(s)), sep)

ParseFailed == [system |-> <<>>, method |-> <<>>, version |-> Zero, err |-> TRUE]

ParseRpcMethod(slug) ==
  LET trimmed == IF slug # <<>> /\ slug[1] = "/" THEN Tail(slug) ELSE slug
      parts == Split(trimmed, <<"/">>)
      system == parts[1]
      named == Split(parts[2], <<".", "v">>)
      method == named[1]
      version == ParseInt(named[2])
  IN IF Len(parts) # 2 THEN ParseFailed
     ELSE IF Len(named) # 2 THEN ParseFailed
     ELSE IF version.err # "" THEN ParseFailed
     ELSE IF version.neg \/ version.val = Zero THEN ParseFailed
     ELSE IF ~validIdentifierName(system) THEN ParseFailed
     ELSE IF ~validIdentifierName(method) THEN ParseFailed
     ELSE IF ToKebabCase(system) # system THEN ParseFailed
     ELSE IF ToKebabCase(method) # method THEN ParseFailed
     ELSE [system |-> system, method |-> method, version |-> version.val, err |-> FALSE]

(***************************************************************************)
(* SplitGoMethodName on its own: subject is the name of a Go method, and   *)
(* outcome what SplitGoMethodName returns for it.                          *)
(***************************************************************************)
MaxNameLen == 4
NameChars == {"a", "B", "V", "0", "1"}

RECURSIVE Strings(_, _)
Strings(chars, n) ==
  IF n = 0 THEN {<<>>}
  ELSE LET shorter == Strings(chars, n - 1)
       IN shorter \cup {Append(s, c) : s \in {t \in shorter : Len(t) = n - 1}, c \in chars}

\* The names tried: the short names over NameChars, and a name whose
\* version is the numeral of 2^64.
GoMethodNames ==
  (Strings(NameChars, MaxNameLen) \ {<<>>})
    \cup {<<"a", "V", "1", "8", "4", "4", "6", "7", "4", "4", "0", "7", "3", "7", "0", "9",
            "5", "5", "1", "6", "1", "6">>}

InitSplit ==
  /\ InitIdle
  /\ subject \in GoMethodNames
  /\ outcome = NoResult

SplitCalled ==
  /\ outcome = NoResult
  /\ outcome' = Result("SplitGoMethodName", FALSE, SplitGoMethodName(subject))
  /\ UNCHANGED <<core, subject>>

NextSplit == SplitCalled

SpecSplit == InitSplit /\ [][NextSplit]_vars

\* The positions of the V of a suffix V<N>, N a positive integer, behind a
\* stem.
VersionSuffix(name) ==
  {k \in 2..(Len(name) - 1) :
     /\ name[k] = "V"
     /\ AllDigits(SubSeq(name, k + 1, Len(name)))
     /\ NumberOf(SubSeq(name, k + 1, Len(name))) # Zero}

\* C28: for a Go method name StemV<N>, N a positive integer,
\* SplitGoMethodName returns the kebab-case of Stem and N; for any other
\* name it returns the empty method and the version 0.
SplitByVersionSuffix ==
  outcome.op = "SplitGoMethodName" =>
    LET at == VersionSuffix(subject)
        k == CHOOSE k \in at : TRUE
    IN outcome.val = (IF at = {}
                        THEN [method |-> <<>>, version |-> Zero]
                        ELSE [method |-> ToKebabCase(SubSeq(subject, 1, k - 1)),
                              version |-> NumberOf(SubSeq(subject, k + 1, Len(subject)))])

(***************************************************************************)
(* GetDefaultMethodName and ParseRpcMethod, one after the other.  subject  *)
(* is a system, a method and a version: any of the bounded sets (a         *)
(* MethodDefinition handed to RegisterMethod, kind "format"), or what      *)
(* RegisterSystem makes of the name of a type and the name of one of its   *)
(* methods (kind "system"), if it registers the method.                    *)
(***************************************************************************)
MaxIdentLen == 2
IdentChars == {"a", "B", "-", "/", "."}
Versions ==
  {Zero, NumberOf(<<"1">>), NumberOf(<<"1", "0">>), MaxInt64, MinInt64Magnitude, MaxUint64}
TypeNames == {<<"A", "a">>, <<"A", "a", "B">>, <<"A", "B", "a">>}
SystemMethodNames ==
  (Strings(NameChars, 3) \ {<<>>})
    \cup {<<"A", "a", "V", "9", "2", "2", "3", "3", "7", "2", "0", "3", "6", "8", "5", "4",
            "7", "7", "5", "8", "0", "8">>}

Definition(kind, system, method, version) ==
  [kind |-> kind, system |-> system, method |-> method, version |-> version]

\* The definitions RegisterSystem hands to RegisterMethod, as far as
\* RegisterMethod lets their names pass.
SystemDefinitions ==
  {d \in {Definition("system", ToKebabCase(tn), SplitGoMethodName(mn).method,
                     SplitGoMethodName(mn).version) : tn \in TypeNames, mn \in SystemMethodNames} :
     /\ d.version # Zero
     /\ validIdentifierName(d.system)
     /\ validIdentifierName(d.method)}

InitFormat ==
  /\ InitIdle
  /\ subject \in {Definition("format", s, m, v) : s \in Strings(IdentChars, MaxIdentLen),
                                                    m \in Strings(IdentChars, MaxIdentLen),
                                                    v \in Versions}
                   \cup SystemDefinitions
  /\ outcome = NoResult

FormatParsed ==
  /\ outcome = NoResult
  /\ outcome' = Result("ParseRpcMethod", FALSE,
                       ParseRpcMethod(GetDefaultMethodName(subject.system, subject.method,
                                                           subject.version)))
  /\ UNCHANGED <<core, subject>>

NextFormat == FormatParsed

SpecFormat == InitFormat /\ [][NextFormat]_vars

\* C27: ParseRpcMethod returns, without an error, the system, the method
\* and the version that GetDefaultMethodName made the endpoint key of, for
\* every key it makes, those of the methods RegisterSystem registers among
\* them.
ParseInvertsFormat ==
  outcome.op = "ParseRpcMethod" =>
     outcome.val = [system |-> subject.system, method |-> subject.method,
                    version |-> subject.version, err |-> FALSE]

\* The same for the keys of the methods RegisterSystem registers only.
ParseInvertsFormatOfSystems ==
  (outcome.op = "ParseRpcMethod" /\ subject.kind = "system") =>
     outcome.val = [system |-> subject.system, method |-> subject.method,
                    version |-> subject.version, err |-> FALSE]

(***************************************************************************)
(* The endpoint table of the Method Handler: subject.endpoints is the set  *)
(* of the keys of MethodHandler.endpoints.  The handler functions          *)
(* registered have signatures that pass the checks of RegisterMethod.      *)
(***************************************************************************)
One == NumberOf(<<"1">>)
DefinedSystems == {<<"a">>, <<"A">>, <<"a", "/">>}
DefinedMethods == {<<"b">>, <<"b", "B">>, <<"b", "_">>}
DefinedVersions == {Zero, One}

\* The systems handed to RegisterSystem: the name of the type, and the
\* names of its methods in the order reflect lists them.
Systems ==
  {[name |-> <<"A", "a">>, methods |-> << <<"A", "V", "1">>, <<"B", "V", "0">>, <<"b">> >>],
   [name |-> <<"a">>, methods |-> << <<"b", "V", "1">>, <<"b", "V", "0", "1">> >>]}

NewMethodHandler == [endpoints |-> {}]

\* RegisterMethod(def) on the table endpoints: the table it leaves, and
\* whether it panicked.
Register(endpoints, def) ==
  LET endpoint == GetDefaultMethodName(def.system, def.method, def.version)
  IN IF ~validIdentifierName(def.system) THEN [endpoints |-> endpoints, panic |-> TRUE]
     ELSE IF ~validIdentifierName(def.method) THEN [endpoints |-> endpoints, panic |-> TRUE]
     ELSE IF endpoint \in endpoints THEN [endpoints |-> endpoints, panic |-> TRUE]
     ELSE [endpoints |-> endpoints \cup {endpoint}, panic |-> FALSE]

RegisterMethod(def) ==
  /\ LET r == Register(subject.endpoints, def)
     IN /\ subject' = [subject EXCEPT !.endpoints = r.endpoints]
        /\ outcome' = Result("RegisterMethod", r.panic, <<>>)
  /\ UNCHANGED core

\* The loop of RegisterSystem from the method i on.
RECURSIVE RegisterMethodsFrom(_, _, _)
RegisterMethodsFrom(endpoints, sys, i) ==
  LET split == SplitGoMethodName(sys.methods[i])
      r == Register(endpoints, Definition("system", ToKebabCase(sys.name), split.method,
                                          split.version))
  IN IF i > Len(sys.methods) THEN [endpoints |-> endpoints, panic |-> FALSE]
     ELSE IF split.version = Zero THEN RegisterMethodsFrom(endpoints, sys, i + 1)
     ELSE IF r.panic THEN r
     ELSE RegisterMethodsFrom(r.endpoints, sys, i + 1)

RegisterSystem(sys) ==
  /\ LET r == RegisterMethodsFrom(subject.endpoints, sys, 1)
     IN /\ subject' = [subject EXCEPT !.endpoints = r.endpoints]
        /\ outcome' = Result("RegisterSystem", r.panic, <<>>)
  /\ UNCHANGED core

InitEndpoints ==
  /\ InitIdle
  /\ subject = NewMethodHandler
  /\ outcome = NoResult

NextEndpoints ==
  \/ \E s \in DefinedSystems, m \in DefinedMethods, v \in DefinedVersions :
       RegisterMethod(Definition("format", s, m, v))
  \/ \E sys \in Systems : RegisterSystem(sys)

SpecEndpoints == InitEndpoints /\ [][NextEndpoints]_vars

\* A non-empty identifier in lowercase kebab-case.
LowerKebab(s) ==
  /\ s # <<>>
  /\ \A i \in 1..Len(s) : s[i] \in LowerChars \cup DigitChars \cup {"-"}

\* key is <system>/<method>.v<N>, N a positive integer.
WellFormedKey(key) ==
  \E i \in 1..Len(key), j \in 1..(Len(key) - 1) :
    /\ i < j
    /\ key[i] = "/" /\ key[j] = "." /\ key[j + 1] = "v"
    /\ LowerKebab(SubSeq(key, 1, i - 1))
    /\ LowerKebab(SubSeq(key, i + 1, j - 1))
    /\ AllDigits(SubSeq(key, j + 2, Len(key)))
    /\ NumberOf(SubSeq(key, j + 2, Len(key))) # Zero

\* C26: whatever systems and methods have been registered, every key of
\* the endpoint table is <system>/<method>.v<N> with system and method
\* non-empty lowercase kebab-case identifiers and N a positive integer.
EndpointKeysWellFormed == \A key \in subject.endpoints : WellFormedKey(key)

(***************************************************************************)
(* The RpcMeta of one Context and the pointers to it.  subject.stored is   *)
(* the RpcMeta that processRpcMessage stored in the Context, the object    *)
(* its slot points to; subject.held are the pointers handed to consumers:  *)
(* a pointer to the stored object (alias), or to an object of its own.     *)
(***************************************************************************)
MaxHeld == 2
MetaFields == {"Method", "HttpMethod", "Source"}
MetaValues == {"system/get.v1", "GET"}

TheRpcMeta == [Method |-> "system/get.v1", HttpMethod |-> "POST", Source |-> RpcSourceHttp]

Pointer(alias, obj) == [alias |-> alias, obj |-> obj]

NewMetaContext == [stored |-> TheRpcMeta, held |-> <<>>]

\* RequireRpcMeta(ctx): a pointer to a copy of the stored object.
RequireRpcMeta ==
  /\ Len(subject.held) < MaxHeld
  /\ subject' = [subject EXCEPT !.held = Append(@, Pointer(FALSE, subject.stored))]
  /\ outcome' = Result("RequireRpcMeta", FALSE, subject.stored)
  /\ UNCHANGED core

\* callMethod, or buildArgs, at an argument of the type *RpcMeta: the
\* handler gets what ctx.Require returns, the pointer in the slot.
ArgumentRpcMeta ==
  /\ Len(subject.held) < MaxHeld
  /\ subject' = [subject EXCEPT !.held = Append(@, Pointer(TRUE, TheRpcMeta))]
  /\ outcome' = Result("Require", FALSE, subject.stored)
  /\ UNCHANGED core

\* A consumer assigns val to the field of the RpcMeta it holds as held[i].
Mutate(i, field, val) ==
  /\ i \in DOMAIN subject.held
  /\ IF subject.held[i].alias
       THEN subject' = [subject EXCEPT !.stored[field] = val]
       ELSE subject' = [subject EXCEPT !.held[i].obj[field] = val]
  /\ outcome' = Result("mutate", FALSE, i)
  /\ UNCHANGED core

InitMeta ==
  /\ InitIdle
  /\ subject = NewMetaContext
  /\ outcome = NoResult

NextMeta ==
  \/ RequireRpcMeta
  \/ ArgumentRpcMeta
  \/ \E i \in 1..MaxHeld, field \in MetaFields, val \in MetaValues : Mutate(i, field, val)

SpecMeta == InitMeta /\ [][NextMeta]_vars

\* C29: an RpcMeta handed to a consumer, by RequireRpcMeta or as an
\* argument of a handler, is a copy: no assignment to it changes the
\* RpcMeta that the Context hands out afterwards.
RpcMetaHandedOutIsCopy ==
  [][\A i \in 1..MaxHeld, field \in MetaFields, val \in MetaValues :
        Mutate(i, field, val) => subject'.stored = subject.stored]_vars

(***************************************************************************)
(* The Validator.  What JonsonValidate of an object does with the          *)
(* Validator it is given is a list of entries: a fault reports an error    *)
(* under a path (v.Path(path...).Message(m)), a nested entry validates an  *)
(* object under a path (v.Path(path...).Validate(child)).  subject is the  *)
(* object handed to Validate and the base path handed along with it.       *)
(***************************************************************************)
MaxDepth == 2
MaxFaults == 2
\* What is handed to Path: a string, or Validator.Index(idx).
Key(x) == [index |-> FALSE, x |-> x, idx |-> 0]
Index(idx) == [index |-> TRUE, x |-> "", idx |-> idx]

FaultPaths == {<<Key("url")>>, <<Key("uuid")>>}
NestedPaths == {<<Key("image")>>, <<Key("imageArr"), Index(1)>>}

\* Path's convertedPaths: a string as it is, an index as fmt.Sprintf("[%d]").
convertedPaths(path) ==
  [i \in DOMAIN path |->
     IF path[i].index THEN "[" \o ToString(path[i].idx) \o "]" ELSE path[i].x]
BasePaths == {<<>>, <<"params">>}

Fault(path) == [kind |-> "fault", path |-> path, child |-> <<>>]
Nested(path, child) == [kind |-> "nested", path |-> path, child |-> child]

\* The sequences of at most n elements of the set.
RECURSIVE SeqsUpTo(_, _)
SeqsUpTo(set, n) ==
  IF n = 0 THEN {<<>>}
  ELSE LET shorter == SeqsUpTo(set, n - 1)
       IN shorter \cup {Append(s, x) : s \in {t \in shorter : Len(t) = n - 1}, x \in set}

\* Objects nested d deep: an object of faults only, or one with one entry.
RECURSIVE Nestable(_)
Nestable(d) ==
  IF d = 0 THEN SeqsUpTo({Fault(p) : p \in FaultPaths}, MaxFaults)
  ELSE {<<>>} \cup {<<Fault(p)>> : p \in FaultPaths}
         \cup {<<Nested(p, child)>> : p \in NestedPaths, child \in Nestable(d - 1)}

\* The objects handed to Validate.
Validated ==
  SeqsUpTo({Fault(p) : p \in FaultPaths}
             \cup {Nested(p, child) : p \in NestedPaths, child \in Nestable(MaxDepth - 1)},
           MaxFaults)

\* An Error of the validator: Data.Path and Data.Details are path and
\* details.
ParamsError(path, details) ==
  [code |-> -32602, message |-> "Invalid params", path |-> path, details |-> details]
Nil == [code |-> 0, message |-> "", path |-> <<>>, details |-> <<>>]

\* Validator.Error on the list errors.
ValidatorError(errors) == IF Len(errors) <= 0 THEN Nil ELSE ParamsError(<<>>, errors)

\* JonsonValidate from the entry i on, on a Validator with the base path
\* and the list errors: the list it leaves.  Path keeps the base path and
\* the path as the path of the validatorError; validatorError.Validate
\* hands the base path and that path on as the base path of the nested
\* Validator, and appends the details of the error it gets.
RECURSIVE JonsonValidate(_, _, _, _)
JonsonValidate(obj, basePath, i, errors) ==
  LET path == basePath \o convertedPaths(obj[i].path)
      err == ValidatorError(JonsonValidate(obj[i].child, basePath \o path, 1, <<>>))
  IN IF i > Len(obj) THEN errors
     ELSE IF obj[i].kind = "fault"
       THEN JonsonValidate(obj, basePath, i + 1, Append(errors, ParamsError(path, <<>>)))
     ELSE JonsonValidate(obj, basePath, i + 1,
                         IF err = Nil THEN errors ELSE errors \o err.details)

Validate(validateable, basePath) ==
  ValidatorError(JonsonValidate(validateable, basePath, 1, <<>>))

InitValidator ==
  /\ InitIdle
  /\ subject \in {[validateable |-> v, basePath |-> b] : v \in Validated, b \in BasePaths}
  /\ outcome = NoResult

ValidateCalled ==
  /\ outcome = NoResult
  /\ outcome' = Result("Validate", FALSE, Validate(subject.validateable, subject.basePath))
  /\ UNCHANGED <<core, subject>>

NextValidator == ValidateCalled

SpecValidator == InitValidator /\ [][NextValidator]_vars

\* The components of a path as they are reported: an index N as [N].
Components(path) ==
  [i \in DOMAIN path |->
     IF path[i].index THEN "[" \o ToString(path[i].idx) \o "]" ELSE path[i].x]

\* The faults of an object and of the objects nested in it, each with the
\* path it is reported under: the path to the object, then its own.
RECURSIVE Faults(_, _, _)
Faults(obj, under, i) ==
  IF i > Len(obj) THEN <<>>
  ELSE (IF obj[i].kind = "fault"
          THEN <<under \o Components(obj[i].path)>>
          ELSE Faults(obj[i].child, under \o Components(obj[i].path), 1))
       \o Faults(obj, under, i + 1)

\* The sequences s and t hold the same elements the same number of times.
SameElements(s, t) ==
  /\ Len(s) = Len(t)
  /\ \A x \in Range(s) \cup Range(t) :
       Cardinality({i \in DOMAIN s : s[i] = x}) = Cardinality({i \in DOMAIN t : t[i] = x})

\* C30: the error of a validation is nil if and only if no path was
\* faulted; otherwise it is one invalid-params error whose details hold
\* each fault once, those of the nested objects included, with the path
\* the fault was reported under.
ValidatorReportsEveryFault ==
  outcome.op = "Validate" =>
    LET faults == Faults(subject.validateable, subject.basePath, 1)
    IN /\ (outcome.val = Nil) <=> (faults = <<>>)
       /\ faults # <<>> =>
            /\ outcome.val.code = -32602
            /\ SameElements([i \in DOMAIN outcome.val.details |-> outcome.val.details[i].path],
                            faults)

(***************************************************************************)
(* A websocket session.  subject is the WSClient: its connection, the      *)
(* reader and the writer loop, the outgoing queue send, the task of each   *)
(* frame read, and one caller of SendNotification.  outcome is the last    *)
(* WriteMessage of the writer.                                             *)
(***************************************************************************)
MaxQueue == 1
MaxFrames == 2

Frames == 1..MaxFrames

\* NewWSClient, and run: both loops started.
NewWSClient ==
  [conn |-> "open", reader |-> "reading", writer |-> "selecting", send |-> <<>>,
   tasks |-> [t \in Frames |-> "none"], notifier |-> "idle"]

\* conn.Close() left as it is found.
LeaveOpen(w) == w
\* conn.Close() in the deferred function of a loop.
Close(w) == [w EXCEPT !.conn = "closed"]

\* reader: ReadMessage returns a text or binary message, a task is started
\* for it.
ReaderReadMessage ==
  /\ subject.reader = "reading" /\ subject.conn = "open"
  /\ \E t \in Frames :
       /\ subject.tasks[t] = "none"
       /\ \A u \in Frames : u < t => subject.tasks[u] # "none"
       /\ subject' = [subject EXCEPT !.tasks[t] = "dispatching"]
  /\ UNCHANGED <<core, outcome>>

\* reader: ReadMessage returns an error, the reader returns and its
\* deferred function closes the connection.
ReaderReturns ==
  /\ subject.reader = "reading"
  /\ subject' = Close([subject EXCEPT !.reader = "done"])
  /\ UNCHANGED <<core, outcome>>

\* The error of the peer or of the read deadline.
ReaderReadError == subject.conn = "open" /\ ReaderReturns

\* The error of a read on the closed connection.
ReaderReadClosed == subject.conn = "closed" /\ ReaderReturns

\* The task of a frame: processRpcMessages returns, with responses or
\* without.
FrameDispatched(t, responds) ==
  /\ subject.tasks[t] = "dispatching"
  /\ subject' = [subject EXCEPT !.tasks[t] = IF responds THEN "sending" ELSE "done"]
  /\ UNCHANGED <<core, outcome>>

\* w.send <- b on the channel of MaxQueue places.
ChanSend(w, b) == [w EXCEPT !.send = Append(@, b)]
CanSend(w) == Len(w.send) < MaxQueue

FrameSend(t) ==
  /\ subject.tasks[t] = "sending"
  /\ CanSend(subject)
  /\ subject' = [ChanSend(subject, "response") EXCEPT !.tasks[t] = "done"]
  /\ UNCHANGED <<core, outcome>>

\* SendNotification is called.
SendNotification ==
  /\ subject.notifier = "idle"
  /\ subject' = [subject EXCEPT !.notifier = "sending"]
  /\ UNCHANGED <<core, outcome>>

\* SendNotification: w.send <- raw, and the return.
NotificationSend ==
  /\ subject.notifier = "sending"
  /\ CanSend(subject)
  /\ subject' = [ChanSend(subject, "notification") EXCEPT !.notifier = "returned"]
  /\ UNCHANGED <<core, outcome>>

\* writer: WriteMessage of the message type; is ok only on an open
\* connection, and on an error the writer returns and its deferred
\* function closes the connection.
WriterWrites(w, messageType, ok) ==
  /\ subject.writer = "selecting"
  /\ ok => subject.conn = "open"
  /\ subject' = IF ok THEN w ELSE Close([w EXCEPT !.writer = "done"])
  /\ outcome' = Result("WriteMessage", ~ok, messageType)
  /\ UNCHANGED core

\* writer, case next := <-w.send.
WriterNext(ok) ==
  /\ subject.send # <<>>
  /\ WriterWrites([subject EXCEPT !.send = Tail(@)], "TextMessage", ok)

\* writer, case <-ticker.C.
WriterTick(ok) == WriterWrites(subject, "PingMessage", ok)

InitWs ==
  /\ InitIdle
  /\ subject = NewWSClient
  /\ outcome = NoResult

NextWs ==
  \/ ReaderReadMessage
  \/ ReaderReadError
  \/ ReaderReadClosed
  \/ \E t \in Frames, responds \in BOOLEAN : FrameDispatched(t, responds)
  \/ \E t \in Frames : FrameSend(t)
  \/ SendNotification
  \/ NotificationSend
  \/ \E ok \in BOOLEAN : WriterNext(ok)
  \/ \E ok \in BOOLEAN : WriterTick(ok)

SpecWs == InitWs /\ [][NextWs]_vars

\* The scheduling: a read on the closed connection returns, the ticker
\* fires, a started task runs and a send on a channel with a free place is
\* done.
FairWs ==
  /\ WF_vars(ReaderReadClosed)
  /\ WF_vars(subject.conn = "closed" /\ WriterTick(FALSE))
  /\ \A t \in Frames : WF_vars(\E responds \in BOOLEAN : FrameDispatched(t, responds))
  /\ \A t \in Frames : WF_vars(FrameSend(t))
  /\ WF_vars(NotificationSend)

SpecWsFair == SpecWs /\ FairWs

LoopEnded == subject.reader = "done" \/ subject.writer = "done"
LoopsEnded == subject.reader = "done" /\ subject.writer = "done"

\* C31: once the reader loop or the writer loop has ended the connection is
\* closed, and the other loop ends as well in the end.
EitherLoopEndsSession ==
  /\ [](LoopEnded => subject.conn = "closed")
  /\ LoopEnded ~> LoopsEnded

\* The session where the reader ended first, and the writer ended on its
\* ping on the closed connection.
WriterEndedOnClosedPing ==
  /\ LoopsEnded
  /\ subject.conn = "closed"
  /\ outcome = Result("WriteMessage", TRUE, "PingMessage")
  /\ subject.send # <<>>


\* C38: a task of a frame with a response to send, and a caller of
\* SendNotification, after the writer loop has ended: the task ends and the
\* call returns, also when the queue is full.
NoSenderBlocksForever ==
  /\ \A t \in Frames :
       (subject.writer = "done" /\ subject.tasks[t] = "sending") ~> (subject.tasks[t] = "done")
  /\ (subject.writer = "done" /\ subject.notifier = "sending") ~> (subject.notifier = "returned")


\* C32: a value is finalized by one Context only, once, and no Context
\* that is still in use holds a value that another Context has finalized:
\* the fork of an internal call does not finalize the values copied to it.
FinalizedByOwnerOnly ==
  \A c \in DOMAIN ctxs, d \in DOMAIN ctxs :
    \A i \in DOMAIN ctxs[c].finlog :
      /\ \A j \in DOMAIN ctxs[d].finlog :
           ctxs[d].finlog[j] = ctxs[c].finlog[i] => (c = d /\ i = j)
      /\ (d # c /\ ~ctxs[d].finalized) =>
           \A k \in DOMAIN ctxs[d].values : ctxs[d].values[k].val # ctxs[c].finlog[i]


\* C33: when the handler of a regexp route returns without a panic and
\* without having written a response, nothing is written for the request,
\* whatever the requests before it did.
RegexpReplyOfOwnRequest ==
  [][(Len(stack) > 0 /\ Top.kind = "body" /\ ctxs[Top.ctx].origin = "regex"
        /\ BodyReturn("fail"))
       => (reply'.status = 0 /\ reply'.body = <<>>)]_vars


\* C34: after a require of a type has panicked in its provider, the next
\* require of the type on the same Context invokes the provider again; it
\* does not find a slot in progress and report a recursion loop.
FailedProviderInvokedAgain ==
  [][\A inst \in BodyTypes :
       (/\ Len(stack) > 0 /\ Top.kind = "body"
        /\ Top.last.op = "require" /\ Top.last.arg = inst /\ Top.last.ctx = Top.ctx
        /\ Top.last.panic /\ Top.last.err = ErrProvider(inst)
        /\ BodyRequire(inst))
       => (/\ Len(stack') = Len(stack) + 1
           /\ stack'[Len(stack')].kind = "provide"
           /\ stack'[Len(stack')].name = inst)]_vars


\* The finalizer of the value of type a is called before that of type b.
CalledBefore(called, a, b) ==
  \E i \in DOMAIN called, j \in DOMAIN called :
    i < j /\ called[i].t = a /\ called[j].t = b

\* C35: when the provider of a Finalizeable A returns, having required a
\* Finalizeable B that was constructed for it in the same Context, the
\* finalization of the Context calls A's Finalize before B's.
DependentFinalizedFirst ==
  [][(/\ Len(stack) > 0 /\ Top.kind = "provide"
      /\ Top.name \in Finalizeable
      /\ Top.last.op = "require" /\ ~Top.last.panic
      /\ Top.last.arg \in Finalizeable /\ Top.last.ctx = Top.ctx
      /\ IndexOf(ctxs[Top.ctx].values, Top.last.arg) > IndexOf(ctxs[Top.ctx].values, Top.name)
      /\ ProvideReturn)
       => CalledBefore(Finalize(ctxs', Top.ctx, NoErr, {}).ctxs[Top.ctx].finlog,
                       Top.name, Top.last.arg)]_vars


\* C36: when the function given to Impersonate returns or panics, the
\* Context made for it is finalized: the finalizers of the Finalizeable
\* values in it have been called.
ImpersonationContextFinalized ==
  [][\A out \in Outcomes :
       (/\ Len(stack) > 0 /\ Top.kind = "body" /\ ctxs[Top.ctx].origin = "impersonate"
        /\ BodyReturn(out))
       => (/\ ctxs'[Top.ctx].finalized
           /\ ctxs'[Top.ctx].finlog
                = FinalizeLoop(ctxs[Top.ctx].values, Len(ctxs[Top.ctx].values)))]_vars


\* The frame of the innermost impersonation scope that the frame j runs
\* in; 0 if it runs in none.
ScopeOf(j) ==
  LET below == {i \in ImpersonationFrames : i < j}
  IN IF below = {} THEN 0 ELSE CHOOSE i \in below : \A k \in below : k <= i

ImpersonatedIn(c) == GetValue(ctxs[c], TypeImpersonated).val

SubErrorPathsFromRoot ==
  (outcome.op = "Validate" /\ subject.basePath = <<>>) =>
    [i \in DOMAIN outcome.val.details |-> outcome.val.details[i].path]
      = Faults(subject.validateable, <<>>, 1)

====
